---- MODULE Spec2Model ----
(***************************************************************************)
(* Deadline Guardian Agent (src/app.py): the risk classifier               *)
(* calculate_risk_level, the reverse-dependency graph of                   *)
(* build_dependency_graph, the cascade analysis of analyze_cascading_risks, *)
(* the text of format_time_remaining, what analyze_risks_with_llm returns  *)
(* and handle_request: validation, fetch, assembly, report and answer.     *)
(*                                                                         *)
(* Python values are records [t, s, l]: t is the Python type, s the        *)
(* characters of a str (a sequence of one-character strings), l the items  *)
(* of a list of str.  A key that a task document does not hold has         *)
(* t = "missing".                                                          *)
(***************************************************************************)
EXTENDS Integers, Sequences, FiniteSets, TLC

VARIABLES
    store,          \* the documents of the task collection, in find() order
    now,            \* the clock datetime.now() reads, in ticks
    ticks,          \* how often the clock has advanced during the request
    pc,             \* position of handle_request
    tasks,          \* handle_request: the fetched snapshot
    analysis,       \* result of analyze_cascading_risks (with the maps it built)
    assembled,      \* risk_counts and analyzed_tasks of handle_request
    response,       \* the response of handle_request
    c_in,           \* classifier run: the (deadline, status) arguments
    c_out,          \* classifier run: what calculate_risk_level gave
    run,            \* stepwise run: the frame of analyze_cascading_risks
    first,          \* an earlier handling of the same request: what it gave
    other,          \* a second caller of the analysis: its snapshot, frame and assembly
    fmt,            \* formatting run: the day count and what format_time_remaining gave
    req,            \* the JSON body request.json gives handle_request
    source,         \* the task store: connected, unavailable (collection is None) or failing
    client,         \* the enrichment client: unconfigured, or the kind of reply it gives
    calls           \* how many times the store and the enrichment service were called

vars == <<store, now, ticks, pc, tasks, analysis, assembled, response, c_in, c_out, run, first, other, fmt, req, source, client, calls>>

-----------------------------------------------------------------------------
(* Bounds of the model *)

\* Largest number of documents in the collection.
MaxTasks == 3

\* Largest number of documents where every tier and every shape of depends_on
\* is tried.
MaxShapeTasks == 2

\* How often the clock may advance while one request is handled.
MaxTicks == 1

\* Clock resolution: instants per calendar day (tick 0 of a day is midnight).
TicksPerDay == 2

-----------------------------------------------------------------------------
(* Python values *)

Str(s) == [t |-> "str", s |-> s, l |-> <<>>]
PyList(l) == [t |-> "list", s |-> <<>>, l |-> l]
None == [t |-> "NoneType", s |-> <<>>, l |-> <<>>]
Missing == [t |-> "missing", s |-> <<>>, l |-> <<>>]

\* dict.get(key, default) on a task document
Get(task, key, default) == IF task[key].t = "missing" THEN default ELSE task[key]

\* Python truthiness of a value
Truthy(v) ==
    CASE v.t = "str" -> Len(v.s) > 0
      [] v.t = "list" -> Len(v.l) > 0
      [] OTHER -> FALSE

\* str.lower(), on the letters the model's strings use
LowerChar(c) ==
    CASE c = "D" -> "d" [] c = "O" -> "o" [] c = "N" -> "n" [] c = "E" -> "e"
      [] c = "C" -> "c" [] c = "M" -> "m" [] c = "P" -> "p" [] c = "L" -> "l"
      [] c = "T" -> "t" [] c = "A" -> "a" [] c = "B" -> "b" [] c = "Z" -> "z"
      [] OTHER -> c

\* Line 77 without lower(): the status is compared as it is
C8Mut_Lower(s) == s

Lower(s) == [i \in 1..Len(s) |-> LowerChar(s[i])]

IsSpace(c) == c \in {" ", "\t", "\n"}

RECURSIVE LStrip(_)
LStrip(s) == IF s # <<>> /\ IsSpace(Head(s)) THEN LStrip(Tail(s)) ELSE s

RECURSIVE RStrip(_)
RStrip(s) ==
    IF s # <<>> /\ IsSpace(s[Len(s)]) THEN RStrip(SubSeq(s, 1, Len(s) - 1)) ELSE s

\* str.strip()
Strip(s) == RStrip(LStrip(s))

\* str.split(','): the pieces between the commas, empty pieces kept
RECURSIVE SplitFrom(_, _, _)
SplitFrom(s, i, cur) ==
    IF i > Len(s) THEN <<cur>>
    ELSE IF s[i] = "," THEN <<cur>> \o SplitFrom(s, i + 1, <<>>)
    ELSE SplitFrom(s, i + 1, Append(cur, s[i]))

Split(s) == SplitFrom(s, 1, <<>>)

-----------------------------------------------------------------------------
(* datetime.strptime(deadline_str, "%Y-%m-%d") and date arithmetic *)

Digits == {"0", "1", "2", "3", "4", "5", "6", "7", "8", "9"}

DigitVal(c) ==
    CASE c = "0" -> 0 [] c = "1" -> 1 [] c = "2" -> 2 [] c = "3" -> 3 [] c = "4" -> 4
      [] c = "5" -> 5 [] c = "6" -> 6 [] c = "7" -> 7 [] c = "8" -> 8 [] c = "9" -> 9

IsLeap(y) == (y % 4 = 0) /\ ((y % 100 # 0) \/ (y % 400 = 0))

DaysInMonth(y, m) ==
    CASE m \in {1, 3, 5, 7, 8, 10, 12} -> 31
      [] m \in {4, 6, 9, 11} -> 30
      [] OTHER -> IF IsLeap(y) THEN 29 ELSE 28

RECURSIVE DaysBeforeMonth(_, _)
DaysBeforeMonth(y, m) ==
    IF m = 1 THEN 0 ELSE DaysBeforeMonth(y, m - 1) + DaysInMonth(y, m - 1)

\* date.toordinal(): day 1 is 0001-01-01
ToOrdinal(y, m, d) ==
    (y - 1) * 365 + ((y - 1) \div 4) - ((y - 1) \div 100) + ((y - 1) \div 400)
    + DaysBeforeMonth(y, m) + d

NoDate == [ok |-> FALSE, y |-> 0, m |-> 0, d |-> 0]

\* The one- or two-character field at s[i..] that the directive's regular
\* expression takes: %m is 1[0-2]|0[1-9]|[1-9], %d is 3[01]|[12]\d|0[1-9]|[1-9]| [1-9].
\* Gives <<value, next index>>, or <<0, 0>> when nothing matches.
MonthField(s, i) ==
    IF i + 1 <= Len(s) /\ s[i] = "1" /\ s[i + 1] \in {"0", "1", "2"}
        THEN <<10 + DigitVal(s[i + 1]), i + 2>>
    ELSE IF i + 1 <= Len(s) /\ s[i] = "0" /\ s[i + 1] \in Digits \ {"0"}
        THEN <<DigitVal(s[i + 1]), i + 2>>
    ELSE IF i <= Len(s) /\ s[i] \in Digits \ {"0"}
        THEN <<DigitVal(s[i]), i + 1>>
    ELSE <<0, 0>>

DayField(s, i) ==
    IF i + 1 <= Len(s) /\ s[i] = "3" /\ s[i + 1] \in {"0", "1"}
        THEN <<30 + DigitVal(s[i + 1]), i + 2>>
    ELSE IF i + 1 <= Len(s) /\ s[i] \in {"1", "2"} /\ s[i + 1] \in Digits
        THEN <<10 * DigitVal(s[i]) + DigitVal(s[i + 1]), i + 2>>
    ELSE IF i + 1 <= Len(s) /\ s[i] = "0" /\ s[i + 1] \in Digits \ {"0"}
        THEN <<DigitVal(s[i + 1]), i + 2>>
    ELSE IF i <= Len(s) /\ s[i] \in Digits \ {"0"}
        THEN <<DigitVal(s[i]), i + 1>>
    ELSE IF i + 1 <= Len(s) /\ s[i] = " " /\ s[i + 1] \in Digits \ {"0"}
        THEN <<DigitVal(s[i + 1]), i + 2>>
    ELSE <<0, 0>>

\* The digits of %Y
YearField(s) ==
    1000 * DigitVal(s[1]) + 100 * DigitVal(s[2]) + 10 * DigitVal(s[3]) + DigitVal(s[4])

\* datetime(y, m, d) raises ValueError for year 0 and for a day the month lacks
StrptimeDate(y, m, d) ==
    IF y < 1 \/ d > DaysInMonth(y, m) THEN NoDate
    ELSE [ok |-> TRUE, y |-> y, m |-> m, d |-> d]

\* The day field df must end the string ("unconverted data remains" otherwise)
StrptimeDay(s, y, m, df) ==
    IF df[2] = 0 \/ df[2] # Len(s) + 1 THEN NoDate ELSE StrptimeDate(y, m, df[1])

\* The month field mf must be followed by "-"
StrptimeMonth(s, y, mf) ==
    IF mf[2] = 0 \/ mf[2] > Len(s) THEN NoDate
    ELSE IF s[mf[2]] # "-" THEN NoDate
    ELSE StrptimeDay(s, y, mf[1], DayField(s, mf[2] + 1))

\* strptime(s, "%Y-%m-%d"): the date, or ok = FALSE where strptime raises
\* ValueError (no match, unconverted data, or a day the month does not have).
Strptime(s) ==
    IF Len(s) < 5 THEN NoDate
    ELSE IF ~((\A i \in 1..4 : s[i] \in Digits) /\ s[5] = "-") THEN NoDate
    ELSE StrptimeMonth(s, YearField(s), MonthField(s, 6))

-----------------------------------------------------------------------------
(* calculate_risk_level *)

Returned(risk, days) == [exc |-> "", risk |-> risk, days |-> days]
Raised(exc) == [exc |-> exc, risk |-> "", days |-> 0]

\* The list of done synonyms of line 77
DoneSynonyms == {<<"d", "o", "n", "e">>, <<"c", "o", "m", "p", "l", "e", "t", "e", "d">>}

\* Line 83 taking the difference of the two calendar dates
C26Mut_DaysRemaining(ordinal, clock) == ordinal - (clock \div TicksPerDay)

\* Line 83 with the difference cut toward zero
C11Mut_DaysRemaining(ordinal, clock) ==
    IF ordinal * TicksPerDay >= clock
        THEN (ordinal * TicksPerDay - clock) \div TicksPerDay
        ELSE -((clock - ordinal * TicksPerDay) \div TicksPerDay)

\* (deadline - now).days: the floor of the difference in days
DaysRemaining(ordinal, clock) == (ordinal * TicksPerDay - clock) \div TicksPerDay

\* Lines 85-92 with the MEDIUM limit taken inclusive
C10Mut_TierOfDays(days_remaining) ==
    IF days_remaining < 0 THEN "CRITICAL"
    ELSE IF days_remaining < 1 THEN "HIGH"
    ELSE IF days_remaining <= 3 THEN "MEDIUM"
    ELSE "LOW"

TierOfDays(days_remaining) ==
    IF days_remaining < 0 THEN "CRITICAL"
    ELSE IF days_remaining < 1 THEN "HIGH"
    ELSE IF days_remaining < 3 THEN "MEDIUM"
    ELSE "LOW"

\* Lines 85-92
RiskOfDays(days_remaining) == Returned(TierOfDays(days_remaining), days_remaining)

\* Lines 93-94 answering BLOCKED for a deadline that does not parse
C25Mut_RiskOfDate(deadline, clock) ==
    IF ~deadline.ok THEN Returned("BLOCKED", 0)
    ELSE RiskOfDays(DaysRemaining(ToOrdinal(deadline.y, deadline.m, deadline.d), clock))

\* Lines 82-94, for what strptime gave
RiskOfDate(deadline, clock) ==
    IF ~deadline.ok THEN Returned("UNKNOWN", 0)
    ELSE RiskOfDays(DaysRemaining(ToOrdinal(deadline.y, deadline.m, deadline.d), clock))

\* calculate_risk_level(deadline_str, status) when datetime.now() is `clock`.
\* status.lower() raises AttributeError on a value that is no str; strptime
\* raises TypeError on one, which `except ValueError` does not catch.
calculate_risk_level(deadline_str, status, clock) ==
    IF status.t # "str" THEN Raised("AttributeError")
    ELSE IF Lower(status.s) \in DoneSynonyms THEN Returned("COMPLETED", 0)
    ELSE IF deadline_str.t # "str" THEN Raised("TypeError")
    ELSE RiskOfDate(Strptime(deadline_str.s), clock)

-----------------------------------------------------------------------------
(* Python dicts: the items in insertion order, as records [k, v] *)

DictHas(d, key) == \E i \in 1..Len(d) : d[i].k = key

DictGet(d, key) == d[CHOOSE i \in 1..Len(d) : d[i].k = key].v

\* d[key] = value: an existing key keeps its place
DictSet(d, key, value) ==
    IF DictHas(d, key)
        THEN [i \in 1..Len(d) |-> IF d[i].k = key THEN [k |-> key, v |-> value] ELSE d[i]]
        ELSE Append(d, [k |-> key, v |-> value])

DictKeys(d) == {d[i].k : i \in 1..Len(d)}

\* A list is unhashable: using one as a dict key or in a membership test of a
\* dict raises TypeError.
Hashable(v) == v.t # "list"

-----------------------------------------------------------------------------
(* build_dependency_graph *)

StripAll(parts) == [i \in 1..Len(parts) |-> Str(Strip(parts[i]))]

\* Line 134 without strip(): the pieces are taken as they are
C4Mut_DepsOf(depends_on) ==
    IF depends_on.t = "str"
        THEN [i \in 1..Len(Split(depends_on.s)) |-> Str(Split(depends_on.s)[i])]
        ELSE <<depends_on>>

\* Lines 134 and 159: the declared predecessor IDs of a truthy depends_on.
\* A str is split at the commas and each piece stripped; any other value
\* becomes the single item of the list.
DepsOf(depends_on) ==
    IF depends_on.t = "str" THEN StripAll(Split(depends_on.s)) ELSE <<depends_on>>

NoGraph(exc) == [exc |-> exc, graph |-> <<>>, status_map |-> <<>>, risk_map |-> <<>>]

\* Lines 119-125 for one task: r is what calculate_risk_level gave for it
InitEntry(acc, task, t_id, r) ==
    IF ~Hashable(t_id) THEN NoGraph("TypeError")
    ELSE IF r.exc # "" THEN NoGraph(r.exc)
    ELSE [exc |-> "",
          graph |-> DictSet(acc.graph, t_id, <<>>),
          status_map |-> DictSet(acc.status_map, t_id,
                            Get(task, "task_status", Str(<<"t", "o", "d", "o">>))),
          risk_map |-> DictSet(acc.risk_map, t_id, r.risk)]

InitTask(acc, task, clock) ==
    InitEntry(acc, task, Get(task, "task_id", None),
              calculate_risk_level(Get(task, "task_deadline", Str(<<>>)),
                                   Get(task, "task_status", Str(<<>>)), clock))

\* Lines 118-125, from task i on: an entry per task_id, the status, the tier.
RECURSIVE InitGraph(_, _, _, _)
InitGraph(ts, i, clock, acc) ==
    IF i > Len(ts) \/ acc.exc # "" THEN acc
    ELSE InitGraph(ts, i + 1, clock, InitTask(acc, ts[i], clock))

\* Lines 136-138, from declared predecessor j on: t_id joins the dependent-list
\* of every declared predecessor that is a key of the graph.
RECURSIVE AddEdges(_, _, _, _)
AddEdges(graph, deps, j, t_id) ==
    IF j > Len(deps) THEN [exc |-> "", graph |-> graph]
    ELSE IF ~Hashable(deps[j]) THEN [exc |-> "TypeError", graph |-> graph]
    ELSE IF DictHas(graph, deps[j])
        THEN AddEdges(DictSet(graph, deps[j], Append(DictGet(graph, deps[j]), t_id)),
                      deps, j + 1, t_id)
        ELSE AddEdges(graph, deps, j + 1, t_id)

\* Lines 129-138 for one task
PopulateTask(graph, t_id, depends_on) ==
    IF ~Truthy(depends_on) THEN [exc |-> "", graph |-> graph]
    ELSE AddEdges(graph, DepsOf(depends_on), 1, t_id)

\* Lines 128-138, from task i on.
RECURSIVE Populate(_, _, _)
Populate(ts, i, acc) ==
    IF i > Len(ts) \/ acc.exc # "" THEN acc
    ELSE Populate(ts, i + 1,
            PopulateTask(acc.graph, Get(ts[i], "task_id", None),
                         Get(ts[i], "depends_on", None)))

\* Line 140: the graph with its edges, beside the maps of the first loop
WithEdges(init, p) ==
    IF p.exc # "" THEN NoGraph(p.exc) ELSE [init EXCEPT !.graph = p.graph]

PopulateGraph(init, ts) ==
    IF init.exc # "" THEN init
    ELSE WithEdges(init, Populate(ts, 1, [exc |-> "", graph |-> init.graph]))

\* build_dependency_graph(tasks) when datetime.now() is `clock`.
build_dependency_graph(ts, clock) ==
    PopulateGraph(InitGraph(ts, 1, clock, NoGraph("")), ts)

-----------------------------------------------------------------------------
(* analyze_cascading_risks *)

\* Line 163 with HIGH forgotten
C1Mut_BlockingTiers == {"CRITICAL"}

\* Line 163: the tiers of a predecessor that block its dependents
BlockingTiers == {"CRITICAL", "HIGH"}

\* Lines 160-164: some declared predecessor has a blocking tier in risk_map.
\* risk_map.get(dep_id) is None for an unknown ID.
BlockedBy(deps, risk_map) ==
    \E j \in 1..Len(deps) :
        DictHas(risk_map, deps[j]) /\ DictGet(risk_map, deps[j]) \in BlockingTiers

\* Lines 154-164 made transitive: a task is blocked when a declared
\* predecessor is risky or is itself blocked
RECURSIVE C7Mut_Closure(_, _, _, _)
C7Mut_Closure(ts, risk_map, blocked, n) ==
    IF n = 0 THEN blocked
    ELSE C7Mut_Closure(ts, risk_map,
            blocked \cup
            {Get(ts[i], "task_id", None) : i \in
                {m \in 1..Len(ts) :
                    /\ Truthy(Get(ts[m], "depends_on", None))
                    /\ \E j \in 1..Len(DepsOf(Get(ts[m], "depends_on", None))) :
                            DepsOf(Get(ts[m], "depends_on", None))[j] \in blocked}},
            n - 1)

C7Mut_BlockedTasks(ts, risk_map) ==
    C7Mut_Closure(ts, risk_map,
        {Get(ts[i], "task_id", None) : i \in
            {n \in 1..Len(ts) :
                /\ Truthy(Get(ts[n], "depends_on", None))
                /\ BlockedBy(DepsOf(Get(ts[n], "depends_on", None)), risk_map)}},
        Len(ts))

\* Lines 154-164: the set blocked_tasks
BlockedTasks(ts, risk_map) ==
    {Get(ts[i], "task_id", None) : i \in
        {n \in 1..Len(ts) :
            /\ Truthy(Get(ts[n], "depends_on", None))
            /\ BlockedBy(DepsOf(Get(ts[n], "depends_on", None)), risk_map)}}

\* Line 168: the fan-out a bottleneck exceeds
BottleneckFanOut == 1

\* Lines 167-169: the keys of the graph, in its order, with more than one dependent
RECURSIVE Bottlenecks(_, _)
Bottlenecks(graph, i) ==
    IF i > Len(graph) THEN <<>>
    ELSE (IF Len(graph[i].v) > BottleneckFanOut THEN <<graph[i].k>> ELSE <<>>)
         \o Bottlenecks(graph, i + 1)

\* Line 171: list(blocked_tasks) gives the IDs of the set in an order the
\* hashing of the interpreter decides: any order
Orderings(S) ==
    {order \in [1..Cardinality(S) -> S] :
        \A i, j \in 1..Cardinality(S) : i # j => order[i] # order[j]}

NoAnalysis(exc) ==
    [exc |-> exc, graph |-> <<>>, status_map |-> <<>>, risk_map |-> <<>>,
     blocked_tasks |-> {}, bottlenecks |-> <<>>]

\* Lines 150-171, for the graph and maps g of line 149
CascadeOf(g, ts) ==
    IF g.exc # "" THEN NoAnalysis(g.exc)
    ELSE [exc |-> "", graph |-> g.graph, status_map |-> g.status_map,
          risk_map |-> g.risk_map,
          blocked_tasks |-> BlockedTasks(ts, g.risk_map),
          bottlenecks |-> Bottlenecks(g.graph, 1)]

\* analyze_cascading_risks(tasks) when datetime.now() is `clock`, with the
\* graph and the maps it built.
analyze_cascading_risks(ts, clock) == CascadeOf(build_dependency_graph(ts, clock), ts)

-----------------------------------------------------------------------------
(* format_time_remaining and the result assembly of handle_request *)

Abs(n) == IF n < 0 THEN -n ELSE n

DigitChar(d) ==
    CASE d = 0 -> "0" [] d = 1 -> "1" [] d = 2 -> "2" [] d = 3 -> "3" [] d = 4 -> "4"
      [] d = 5 -> "5" [] d = 6 -> "6" [] d = 7 -> "7" [] d = 8 -> "8" [] d = 9 -> "9"

\* str(n) of an int n >= 0, as an f-string prints it
RECURSIVE Decimal(_)
Decimal(n) == IF n < 10 THEN <<DigitChar(n)>> ELSE Decimal(n \div 10) \o <<DigitChar(n % 10)>>

\* str(n) of any int
IntStr(n) == IF n < 0 THEN <<"-">> \o Decimal(-n) ELSE Decimal(n)

\* Line 99 without abs()
C19Mut_format_time_remaining(days) ==
    IF days < 0 THEN <<"O", "V", "E", "R", "D", "U", "E", " ", "b", "y", " ">> \o IntStr(days) \o <<" ", "d", "a", "y", "(", "s", ")">>
    ELSE IF days = 0 THEN <<"D", "u", "e", " ", "T", "O", "D", "A", "Y">>
    ELSE IntStr(days) \o <<" ", "d", "a", "y", "(", "s", ")">>

\* format_time_remaining(days): the text, a str
format_time_remaining(days) ==
    IF days < 0 THEN <<"O", "V", "E", "R", "D", "U", "E", " ", "b", "y", " ">> \o IntStr(Abs(days)) \o <<" ", "d", "a", "y", "(", "s", ")">>
    ELSE IF days = 0 THEN <<"D", "u", "e", " ", "T", "O", "D", "A", "Y">>
    ELSE IntStr(days) \o <<" ", "d", "a", "y", "(", "s", ")">>

\* Line 283: the tiers of the histogram
Tiers == {"CRITICAL", "HIGH", "MEDIUM", "LOW", "COMPLETED", "UNKNOWN", "BLOCKED"}

\* Line 294 with COMPLETED forgotten
C2Mut_KeptTiers == {"CRITICAL"}

\* Line 294: the tiers a blocked task keeps
KeptTiers == {"CRITICAL", "COMPLETED"}

InSeq(x, seq) == \E i \in 1..Len(seq) : seq[i] = x

\* Line 294 looking at the head of the list only
C14Mut_IsBlocked(t_id, blocked_tasks) == blocked_tasks # <<>> /\ blocked_tasks[1] = t_id

\* Line 294: t_id in blocked_tasks, the list that line 171 made of the set
IsBlocked(t_id, blocked_tasks) == InSeq(t_id, blocked_tasks)

\* Lines 293-295 overriding the tier of every blocked task
C30Mut_EffectiveRisk(t_id, risk, blocked_tasks) ==
    IF IsBlocked(t_id, blocked_tasks) THEN "BLOCKED" ELSE risk

\* Lines 293-295: the tier reported for a task
EffectiveRisk(t_id, risk, blocked_tasks) ==
    IF IsBlocked(t_id, blocked_tasks) /\ risk \notin KeptTiers THEN "BLOCKED" ELSE risk

NoAssembly(exc) == [exc |-> exc, risk_counts |-> [r \in Tiers |-> 0], analyzed_tasks |-> <<>>]

\* Lines 297-307 with line 297 skipped for a task whose tier was overridden
C12Mut_Counted(acc, task, t_id, risk, days, bottlenecks) ==
    [exc |-> "",
     risk_counts |-> IF risk = "BLOCKED" THEN acc.risk_counts
                     ELSE [acc.risk_counts EXCEPT ![risk] = @ + 1],
     analyzed_tasks |-> Append(acc.analyzed_tasks,
        [id |-> t_id,
         deadline |-> Get(task, "task_deadline", None),
         risk |-> risk,
         days_remaining |-> days,
         time_text |-> format_time_remaining(days),
         is_bottleneck |-> InSeq(t_id, bottlenecks)])]

\* Lines 297-307 for one task with reported tier `risk`
Counted(acc, task, t_id, risk, days, bottlenecks) ==
    [exc |-> "",
     risk_counts |-> [acc.risk_counts EXCEPT ![risk] = @ + 1],
     analyzed_tasks |-> Append(acc.analyzed_tasks,
        [id |-> t_id,
         deadline |-> Get(task, "task_deadline", None),
         risk |-> risk,
         days_remaining |-> days,
         time_text |-> format_time_remaining(days),
         is_bottleneck |-> InSeq(t_id, bottlenecks)])]

\* Lines 287-307 for one task: r is what calculate_risk_level gave for it
AssembleEntry(acc, task, t_id, r, blocked_tasks, bottlenecks) ==
    IF r.exc # "" THEN NoAssembly(r.exc)
    ELSE Counted(acc, task, t_id, EffectiveRisk(t_id, r.risk, blocked_tasks),
                 r.days, bottlenecks)

AssembleTask(acc, task, blocked_tasks, bottlenecks, clock) ==
    AssembleEntry(acc, task, Get(task, "task_id", None),
                  calculate_risk_level(Get(task, "task_deadline", Str(<<>>)),
                                       Get(task, "task_status", Str(<<>>)), clock),
                  blocked_tasks, bottlenecks)

\* Lines 286-307, from task i on
RECURSIVE AssembleFrom(_, _, _, _, _, _)
AssembleFrom(ts, i, blocked_tasks, bottlenecks, clock, acc) ==
    IF i > Len(ts) \/ acc.exc # "" THEN acc
    ELSE AssembleFrom(ts, i + 1, blocked_tasks, bottlenecks, clock,
            AssembleTask(acc, ts[i], blocked_tasks, bottlenecks, clock))

Assembly(ts, blocked_tasks, bottlenecks, clock) ==
    AssembleFrom(ts, 1, blocked_tasks, bottlenecks, clock, NoAssembly(""))

-----------------------------------------------------------------------------
(* handle_request *)

\* The JSON body of a request: null, an object or an array.  Of an object the
\* model keeps the values of the keys intent and request_id and whether it
\* holds other keys; of an array, the number of its items.
Request(body, intent, request_id, extra, items) ==
    [body |-> body, intent |-> intent, request_id |-> request_id,
     extra |-> extra, items |-> items]

MonitorIntent == <<"d", "e", "a", "d", "l", "i", "n", "e", ".", "m", "o", "n", "i", "t", "o", "r">>

\* {"request_id": "r1", "intent": "deadline.monitor", "input": {}}
MonitorRequest == Request("object", Str(MonitorIntent), Str(<<"r", "1">>), TRUE, 0)

\* Line 246 asking only whether data is None
C21Mut_BodyTruthy(r) == r.body # "null"

\* Line 246: the truth value of data
BodyTruthy(r) ==
    CASE r.body = "object" -> r.intent.t # "missing" \/ r.request_id.t # "missing" \/ r.extra
      [] r.body = "list" -> r.items > 0
      [] OTHER -> FALSE

\* Lines 246-261: the requests that reach the try block
Accepted(r) ==
    /\ BodyTruthy(r)
    /\ r.body = "object"
    /\ Get(r, "intent", None) = Str(MonitorIntent)

\* An f-string's text for a value
FormatValue(v) ==
    CASE v.t = "str" -> v.s
      [] OTHER -> <<"N", "o", "n", "e">>

NoCalls == [find |-> 0, llm |-> 0]

\* The name the agent answers under
AgentName == <<"d", "e", "a", "d", "l", "i", "n", "e", "_", "g", "u", "a", "r", "d", "i", "a", "n", "_", "a", "g", "e", "n", "t">>

\* What handle_request answers: the HTTP status, the keys of the body and
\* their values (error is "absent", "null" or "object"; confidence is in
\* hundredths), the figures and the sections of the report (the IDs listed
\* under each heading), whether the report has the AI summary, which
\* recommendations it ends with, the details text and whether it says that AI
\* analysis is included; exc is the exception that left handle_request, if
\* one did
NoResponse ==
    [http |-> 0, fields |-> {}, status |-> "", agent_name |-> <<>>,
     error |-> "absent", error_type |-> "", request_id |-> Missing,
     message |-> <<>>, output_fields |-> {}, confidence |-> 0, details |-> <<>>,
     total |-> 0, at_risk |-> 0, bottlenecks |-> 0, blocked |-> 0,
     sections |-> [h \in {"CRITICAL", "BLOCKED", "HIGH"} |-> <<>>],
     ai_summary |-> FALSE, recommendations |-> "none", ai_included |-> FALSE,
     exc |-> ""]

\* Lines 247-255, 262-270, 376-384: the body of an error response
ErrorBody(http, error_type, request_id, message) ==
    [NoResponse EXCEPT !.http = http,
                       !.fields = {"request_id", "agent_name", "status", "error"},
                       !.status = "error", !.agent_name = AgentName,
                       !.error = "object", !.error_type = error_type,
                       !.request_id = request_id, !.message = message]

\* Lines 359-361: the details text
Details(n_tasks, n_bottlenecks, ai) ==
    <<"A", "n", "a", "l", "y", "z", "e", "d", " ">> \o IntStr(n_tasks) \o <<" ", "t", "a", "s", "k", "s", ".", " ">>
    \o IntStr(n_bottlenecks) \o <<" ", "b", "o", "t", "t", "l", "e", "n", "e", "c", "k", "s", " ", "i", "d", "e", "n", "t", "i", "f", "i", "e", "d", ".">>
    \o (IF ai THEN <<" ", "A", "I", " ", "a", "n", "a", "l", "y", "s", "i", "s", " ", "i", "n", "c", "l", "u", "d", "e", "d", ".">> ELSE <<>>)

\* Lines 246-270: the answer to a request that does not reach the try block.
\* data.get of a body that is no object raises AttributeError outside the try
\* block, and the framework answers an exception that leaves a view with 500.
Rejection(r) ==
    IF ~BodyTruthy(r)
        THEN ErrorBody(400, "invalid_request", Str(<<"u", "n", "k", "n", "o", "w", "n">>),
                       <<"M", "i", "s", "s", "i", "n", "g", " ", "r", "e", "q", "u", "e", "s", "t", " ", "b", "o", "d", "y">>)
    ELSE IF r.body # "object"
        THEN [NoResponse EXCEPT !.http = 500, !.exc = "AttributeError"]
    ELSE ErrorBody(400, "invalid_intent", Get(r, "request_id", None),
                   <<"U", "n", "s", "u", "p", "p", "o", "r", "t", "e", "d", " ", "i", "n", "t", "e", "n", "t", ":", " ">>
                   \o FormatValue(Get(r, "intent", None))
                   \o <<".", " ", "O", "n", "l", "y", " ", "'", "d", "e", "a", "d", "l", "i", "n", "e", ".", "m", "o", "n", "i", "t", "o", "r", "'", " ", "i", "s", " ", "s", "u", "p", "p", "o", "r", "t", "e", "d", ".">>)

\* Lines 375-384 answering under the request_id of lines 247-255
C28Mut_Failure(r) ==
    ErrorBody(500, "processing_error", Str(<<"u", "n", "k", "n", "o", "w", "n">>),
              <<"F", "a", "i", "l", "e", "d", " ", "t", "o", " ", "a", "n", "a", "l", "y", "z", "e", " ", "d", "e", "a", "d", "l", "i", "n", "e", "s", ":", " ">>)

\* Lines 375-384: the answer to an exception raised in the try block; the
\* message goes on with str(e)
Failure(r) ==
    ErrorBody(500, "processing_error", Get(r, "request_id", None),
              <<"F", "a", "i", "l", "e", "d", " ", "t", "o", " ", "a", "n", "a", "l", "y", "z", "e", " ", "d", "e", "a", "d", "l", "i", "n", "e", "s", ":", " ">>)

\* Lines 244-270
Reject ==
    /\ pc = "start"
    /\ ~Accepted(req)
    /\ response' = Rejection(req)
    /\ pc' = "done"
    /\ UNCHANGED <<store, now, ticks, tasks, analysis, assembled, c_in, c_out, run, first, other, fmt, req, source, client, calls>>

\* Lines 274-277: the snapshot is read from the collection; without a
\* collection handle it is the empty list, and find() may raise
Fetch ==
    /\ pc = "start"
    /\ Accepted(req)
    /\ tasks' = IF source = "connected" THEN store ELSE <<>>
    /\ calls' = IF source = "unavailable" THEN calls ELSE [calls EXCEPT !.find = @ + 1]
    /\ pc' = IF source = "failing" THEN "raised" ELSE "fetched"
    /\ UNCHANGED <<store, now, ticks, analysis, assembled, response, c_in, c_out, run, first, other, fmt, req, source, client>>

\* Line 280: analyze_cascading_risks(tasks); `at` is the instant its calls of
\* datetime.now() read, `blocked` the list made of the set blocked_tasks.
Analyze ==
    /\ pc = "fetched"
    /\ \E a \in {analyze_cascading_risks(tasks, now)} :
         \E order \in Orderings(a.blocked_tasks) :
            analysis' = [a |-> a, at |-> now, blocked |-> order]
    /\ pc' = IF analysis'.a.exc # "" THEN "raised" ELSE "analyzed"
    /\ UNCHANGED <<store, now, ticks, tasks, assembled, response, c_in, c_out, run, first, other, fmt, req, source, client, calls>>

\* The clock advances between the analysis and the assembly.
Tick ==
    /\ pc = "analyzed"
    /\ ticks < MaxTicks
    /\ now' = now + 1
    /\ ticks' = ticks + 1
    /\ UNCHANGED <<store, pc, tasks, analysis, assembled, response, c_in, c_out, run, first, other, fmt, req, source, client, calls>>

\* Lines 283-307 with the snapshot written to: the assembly leaves the
\* documents in the opposite order
C15Mut_Assemble ==
    /\ pc = "analyzed"
    /\ assembled' = [r |-> Assembly(tasks, analysis.blocked,
                                    analysis.a.bottlenecks, now),
                     at |-> now]
    /\ tasks' = [i \in 1..Len(tasks) |-> tasks[Len(tasks) + 1 - i]]
    /\ pc' = IF assembled'.r.exc # "" THEN "raised" ELSE "assembled"
    /\ UNCHANGED <<store, now, ticks, analysis, response, c_in, c_out, run, first, other, fmt, req, source, client, calls>>

\* Lines 283-307
Assemble ==
    /\ pc = "analyzed"
    /\ assembled' = [r |-> Assembly(tasks, analysis.blocked,
                                    analysis.a.bottlenecks, now),
                     at |-> now]
    /\ pc' = IF assembled'.r.exc # "" THEN "raised" ELSE "assembled"
    /\ UNCHANGED <<store, now, ticks, tasks, analysis, response, c_in, c_out, run, first, other, fmt, req, source, client, calls>>

\* What analyze_risks_with_llm returns, or the JSON value the reply holds: its
\* type, the keys of an object and the type of its strategic_recommendations
Insights(t, keys, recs) == [t |-> t, keys |-> keys, recs |-> recs]

NoInsights == Insights("NoneType", {}, "missing")

\* The enrichment client: None, or what its call does
Replies == {"raises", "not_json", "no_content", "null", "object", "analysis_only",
            "empty_object", "number", "list", "recs_null"}
Clients == {"unconfigured"} \cup Replies

\* Lines 177-236: no client, create() raises, the content is no JSON text or
\* None (json.loads raises), or json.loads gives the value of the JSON text
analyze_risks_with_llm(cl) ==
    CASE cl = "object" ->
            Insights("dict", {"risk_analysis", "strategic_recommendations"}, "list")
      [] cl = "analysis_only" -> Insights("dict", {"risk_analysis"}, "missing")
      [] cl = "empty_object" -> Insights("dict", {}, "missing")
      [] cl = "recs_null" -> Insights("dict", {"strategic_recommendations"}, "NoneType")
      [] cl = "number" -> Insights("int", {}, "missing")
      [] cl = "list" -> Insights("list", {}, "missing")
      [] OTHER -> NoInsights

\* Line 310 asking only for a client
C23Mut_EnrichmentCalled(cl, ts) == cl # "unconfigured"

\* Line 310: the condition `client and tasks`
EnrichmentCalled(cl, ts) == cl # "unconfigured" /\ ts # <<>>

\* Line 310
AiInsights(cl, ts) == IF EnrichmentCalled(cl, ts) THEN analyze_risks_with_llm(cl) ELSE NoInsights

\* The truth value of ai_insights: an object with a key, a non-zero number, a
\* non-empty array
InsightsTruthy(ins) ==
    CASE ins.t = "dict" -> ins.keys # {}
      [] ins.t \in {"int", "list"} -> TRUE
      [] OTHER -> FALSE

\* Lines 322 and 350: ai_insights and key in ai_insights (an array of the
\* model holds no item equal to a key)
HasKey(ins, key) == InsightsTruthy(ins) /\ ins.t = "dict" /\ key \in ins.keys

\* Lines 322 and 350-352: `in` on a number, and the loop over a
\* strategic_recommendations that is null, raise TypeError
ReportExc(ins) ==
    IF InsightsTruthy(ins) /\ ins.t = "int" THEN "TypeError"
    ELSE IF HasKey(ins, "strategic_recommendations") /\ ins.recs \notin {"list", "str"}
        THEN "TypeError"
    ELSE ""

\* Lines 326-347: the IDs the report lists under a heading, in snapshot order
Listed(analyzed_tasks, heading) ==
    [i \in 1..Len(SelectSeq(analyzed_tasks, LAMBDA t : t.risk = heading)) |->
        SelectSeq(analyzed_tasks, LAMBDA t : t.risk = heading)[i].id]

\* Lines 350-355: how the report ends
Recommendations(ins, risk_counts) ==
    IF HasKey(ins, "strategic_recommendations") THEN "ai"
    ELSE IF ~InsightsTruthy(ins) /\ risk_counts["CRITICAL"] > 0 THEN "fallback"
    ELSE "none"

\* Lines 315-373: the report and the success response
Report(r, ts, a, asm, ins) ==
    IF ReportExc(ins) # "" THEN Failure(r)
    ELSE [NoResponse EXCEPT
            !.http = 200,
            !.fields = {"request_id", "agent_name", "status", "output", "error"},
            !.status = "success", !.agent_name = AgentName, !.error = "null",
            !.request_id = Get(r, "request_id", None),
            !.output_fields = {"result", "confidence", "details"},
            !.confidence = 100,
            !.details = Details(Len(ts), Len(a.a.bottlenecks), InsightsTruthy(ins)),
            !.total = Len(ts),
            !.at_risk = asm.risk_counts["CRITICAL"] + asm.risk_counts["HIGH"]
                        + asm.risk_counts["BLOCKED"],
            !.bottlenecks = Len(a.a.bottlenecks),
            !.blocked = Len(a.blocked),
            !.sections = [h \in {"CRITICAL", "BLOCKED", "HIGH"} |->
                            Listed(asm.analyzed_tasks, h)],
            !.ai_summary = HasKey(ins, "risk_analysis"),
            !.recommendations = Recommendations(ins, asm.risk_counts),
            !.ai_included = InsightsTruthy(ins)]

\* Lines 310-373 (the enrichment, the report and the success response) and
\* lines 375-384 (the answer to a raised exception)
Respond ==
    /\ pc \in {"assembled", "raised"}
    /\ response' =
        IF pc = "raised" THEN Failure(req)
        ELSE Report(req, tasks, analysis, assembled.r, AiInsights(client, tasks))
    /\ calls' = IF pc = "assembled" /\ EnrichmentCalled(client, tasks)
                    THEN [calls EXCEPT !.llm = @ + 1] ELSE calls
    /\ pc' = "done"
    /\ UNCHANGED <<store, now, ticks, tasks, analysis, assembled, c_in, c_out, run, first, other, fmt, req, source, client>>

\* handle_request for a deadline.monitor request
Next == Fetch \/ Analyze \/ Tick \/ Assemble \/ Respond

-----------------------------------------------------------------------------
(* The instants and the inputs the model runs the program on *)

\* The date the requests are handled on: 2024-03-01
Today == ToOrdinal(2024, 3, 1)

\* The instants of that day: midnight and the later ticks
ClockStarts == {Today * TicksPerDay + k : k \in 0..(TicksPerDay - 1)}

DeadlineStrings == {
    <<"2", "0", "2", "4", "-", "0", "2", "-", "2", "9">>,
    <<"2", "0", "2", "4", "-", "0", "3", "-", "0", "1">>,
    <<"2", "0", "2", "4", "-", "0", "3", "-", "0", "2">>,
    <<"2", "0", "2", "4", "-", "0", "3", "-", "0", "3">>,
    <<"2", "0", "2", "4", "-", "0", "3", "-", "0", "4">>,
    <<"2", "0", "2", "4", "-", "0", "3", "-", "0", "6">>,
    <<"2", "0", "2", "4", "-", "0", "4", "-", "0", "1">>,
    <<"2", "0", "2", "4", "-", "3", "-", "2">>,
    <<"2", "0", "2", "4", "-", "0", "3", "-", " ", "4">>,
    <<"2", "0", "2", "3", "-", "0", "2", "-", "2", "9">>,
    <<"2", "0", "2", "4", "-", "1", "3", "-", "0", "1">>,
    <<"2", "0", "2", "4", "-", "0", "3", "-", "3", "2">>,
    <<"2", "0", "2", "4", "/", "0", "3", "/", "0", "2">>,
    <<"2", "0", "2", "4", "-", "0", "3", "-", "0", "2", " ">>,
    <<"2", "4", "-", "0", "3", "-", "0", "2">>,
    <<"2", "0", "2", "4", "-", "0", "3">>,
    <<"s", "o", "o", "n">>,
    <<>>}

StatusStrings == {
    <<"t", "o", "d", "o">>,
    <<"d", "o", "n", "e">>,
    <<"D", "O", "N", "E">>,
    <<"D", "o", "n", "e">>,
    <<"c", "o", "m", "p", "l", "e", "t", "e", "d">>,
    <<"C", "o", "m", "p", "l", "e", "t", "e", "d">>,
    <<"C", "O", "M", "P", "L", "E", "T", "E", "D">>,
    <<" ", "d", "o", "n", "e">>,
    <<"d", "o", "n", "e", "e">>,
    <<"i", "n", " ", "p", "r", "o", "g", "r", "e", "s", "s">>,
    <<>>}

\* Arguments of calculate_risk_level: every str above, and None
DeadlineInputs == {Str(s) : s \in DeadlineStrings} \cup {None}
StatusInputs == {Str(s) : s \in StatusStrings} \cup {None}

Pending == Raised("pending")

\* The frame of analyze_cascading_risks before the call: the loop it is in,
\* the index of the task (or graph item) it is at, the declared predecessors the
\* inner loop has left, and the locals
NoRun ==
    [phase |-> "none", i |-> 1, deps |-> <<>>, exc |-> "", graph |-> <<>>,
     status_map |-> <<>>, risk_map |-> <<>>, blocked_tasks |-> {}, bottlenecks |-> <<>>]

\* No call of format_time_remaining
NoFormat == [days |-> 0, called |-> FALSE, text |-> <<>>]

\* No earlier handling of the request
NoFirst == [seen |-> FALSE,
            analysis |-> [a |-> NoAnalysis(""), at |-> 0, blocked |-> <<>>],
            assembled |-> [r |-> NoAssembly(""), at |-> 0]]

\* No second caller
NoOther == [ts |-> <<>>, run |-> NoRun, assembled |-> [r |-> NoAssembly(""), at |-> 0]]

Idle ==
    /\ pc = "start" /\ ticks = 0 /\ tasks = <<>>
    /\ analysis = [a |-> NoAnalysis(""), at |-> 0, blocked |-> <<>>]
    /\ assembled = [r |-> NoAssembly(""), at |-> 0]
    /\ response = NoResponse

\* A task document
Task(id, status, deadline, depends_on) ==
    [task_id |-> id, task_status |-> status, task_deadline |-> deadline,
     depends_on |-> depends_on]

\* The IDs of the documents, by position
IdLetters == <<"A", "B", "C", "D", "E">>
IdAt(i) == Str(<<IdLetters[i]>>)

\* (status, deadline) of a document
Overdue == <<Str(<<"t", "o", "d", "o">>), Str(<<"2", "0", "2", "4", "-", "0", "2", "-", "2", "9">>)>>
DueTomorrow == <<Str(<<"t", "o", "d", "o">>), Str(<<"2", "0", "2", "4", "-", "0", "3", "-", "0", "2">>)>>
DueLater == <<Str(<<"t", "o", "d", "o">>), Str(<<"2", "0", "2", "4", "-", "0", "3", "-", "0", "9">>)>>
NoDeadline == <<Str(<<"t", "o", "d", "o">>), Str(<<>>)>>
Finished == <<Str(<<"D", "o", "n", "e">>), Str(<<"2", "0", "2", "4", "-", "0", "2", "-", "2", "9">>)>>

\* The snapshots of up to n documents with the unique IDs A, B, ... in this
\* order, (status, deadline) from `kinds` and depends_on from `deps`
Snapshots(n, kinds, deps) ==
    UNION {{[i \in 1..len |-> Task(IdAt(i), c[i][1][1], c[i][1][2], c[i][2])] :
                c \in [1..len -> kinds \X deps]} : len \in 0..n}

\* Chains and fan-out: up to MaxTasks documents that depend on none or on one
\* of the first two
ChainKinds == {Overdue, DueTomorrow, DueLater}
ChainDeps == {None, Str(<<"A">>), Str(<<"B">>)}

\* Every tier: up to MaxShapeTasks documents of every kind
TierKinds == {Overdue, DueTomorrow, DueLater, NoDeadline, Finished}
TierDeps == {None, Str(<<"A">>), Str(<<"B">>), Str(<<"A", ",", " ", "B">>)}

\* Every shape of depends_on: a missing key, one ID, several IDs with and
\* without blanks, an ID twice, the ID of no document, a list of IDs
ShapeKinds == {Overdue, DueLater}
ShapeDeps == {Missing, Str(<<"A">>), Str(<<"B">>), Str(<<"A", ",", "B">>), Str(<<" ", "A", " ", ",", " ", "B">>),
              Str(<<"A", ",", "A">>), Str(<<"Z", ",", "B">>), PyList(<<<<"A">>, <<"B">>>>)}

StoreContents ==
    Snapshots(MaxTasks, ChainKinds, ChainDeps)
    \cup Snapshots(MaxShapeTasks, TierKinds, TierDeps)
    \cup Snapshots(MaxShapeTasks, ShapeKinds, ShapeDeps)

Init ==
    /\ store \in StoreContents
    /\ now \in ClockStarts
    /\ Idle
    /\ c_in = [deadline |-> None, status |-> None]
    /\ c_out = Pending
    /\ run = NoRun
    /\ calls = NoCalls
    /\ client = "unconfigured"
    /\ source = "connected"
    /\ req = MonitorRequest
    /\ fmt = NoFormat
    /\ other = NoOther
    /\ first = NoFirst

Spec == Init /\ [][Next]_vars

-----------------------------------------------------------------------------
(* The same request handled twice on an unchanged collection *)

\* Largest snapshot that is analyzed twice
MaxTwiceTasks == 3

\* An overdue document and documents that depend on it or on nothing
TwiceContents ==
    Snapshots(MaxTwiceTasks, {Overdue, DueLater}, {None, Str(<<"A">>)})

TwiceInit ==
    /\ store \in TwiceContents
    /\ now \in ClockStarts
    /\ Idle
    /\ c_in = [deadline |-> None, status |-> None]
    /\ c_out = Pending
    /\ run = NoRun
    /\ calls = NoCalls
    /\ client = "unconfigured"
    /\ source = "connected"
    /\ req = MonitorRequest
    /\ fmt = NoFormat
    /\ other = NoOther
    /\ first = NoFirst

\* handle_request is entered again for the same collection, at any instant of
\* the day; what the first handling computed is kept for comparison.
Again ==
    /\ pc = "done"
    /\ ~first.seen
    /\ first' = [seen |-> TRUE, analysis |-> analysis, assembled |-> assembled]
    /\ now' \in ClockStarts
    /\ ticks' = 0
    /\ pc' = "start"
    /\ tasks' = <<>>
    /\ analysis' = [a |-> NoAnalysis(""), at |-> 0, blocked |-> <<>>]
    /\ assembled' = [r |-> NoAssembly(""), at |-> 0]
    /\ response' = NoResponse
    /\ UNCHANGED <<store, c_in, c_out, run, other, fmt, req, source, client, calls>>

TwiceNext == Next \/ Again

SpecTwice == TwiceInit /\ [][TwiceNext]_vars

-----------------------------------------------------------------------------
(* Requests on snapshots with one malformed document *)

\* Largest snapshot with a malformed document
MaxMalformedTasks == 2

\* The document at position i with any of its fields absent or null: the ID,
\* the status, the deadline (also empty), depends_on (also empty)
MalformedDocs(i) ==
    {Task(id, st, dl, dep) :
        id \in {IdAt(i), None, Missing},
        st \in {Str(<<"t", "o", "d", "o">>), None, Missing},
        dl \in {Str(<<"2", "0", "2", "4", "-", "0", "2", "-", "2", "9">>), Str(<<>>), None, Missing},
        dep \in {Str(<<"A">>), Str(<<"B">>), Str(<<>>), None, Missing}}

\* The snapshots of up to n documents of which the one at position `bad` is
\* malformed and the others are complete
MalformedSnapshots(n) ==
    UNION {UNION {{[i \in 1..len |->
                        IF i = bad THEN m
                        ELSE Task(IdAt(i), w[i][1][1], w[i][1][2], w[i][2])] :
                    m \in MalformedDocs(bad),
                    w \in [1..len -> {Overdue, DueLater} \X {None, Str(<<"A">>)}]} :
                bad \in 1..len} : len \in 1..n}

MalformedInit ==
    /\ store \in MalformedSnapshots(MaxMalformedTasks)
    /\ now \in ClockStarts
    /\ Idle
    /\ c_in = [deadline |-> None, status |-> None]
    /\ c_out = Pending
    /\ run = NoRun
    /\ calls = NoCalls
    /\ client = "unconfigured"
    /\ source = "connected"
    /\ req = MonitorRequest
    /\ fmt = NoFormat
    /\ other = NoOther
    /\ first = NoFirst

SpecMalformed == MalformedInit /\ [][Next]_vars

-----------------------------------------------------------------------------
(* Requests of every kind, on a store that may be missing or failing *)

\* Largest snapshot of these requests
MaxHandleTasks == 2

\* The values of the key intent: the supported one, others, null, no key
Intents == {Str(MonitorIntent), Str(<<"D", "e", "a", "d", "l", "i", "n", "e", ".", "M", "o", "n", "i", "t", "o", "r">>), Str(<<"d", "e", "a", "d", "l", "i", "n", "e", ".", "m", "o", "n", "i", "t", "o", "r", " ">>),
            Str(<<"t", "a", "s", "k", ".", "c", "r", "e", "a", "t", "e">>), Str(<<>>), None, Missing}

RequestIds == {Str(<<"r", "1">>), Missing}

\* null, {}, [], an array with items, and the objects with an input key
Requests ==
    {Request("null", Missing, Missing, FALSE, 0),
     Request("object", Missing, Missing, FALSE, 0),
     Request("list", Missing, Missing, FALSE, 0),
     Request("list", Missing, Missing, FALSE, 1)}
    \cup {Request("object", intent, request_id, TRUE, 0) :
            intent \in Intents, request_id \in RequestIds}

Sources == {"connected", "unavailable", "failing"}

HandleKinds == {Overdue, DueTomorrow, DueLater}
HandleDeps == {None, Str(<<"A">>)}
HandleContents == Snapshots(MaxHandleTasks, HandleKinds, HandleDeps)

\* Requests that are turned away meet a connected store and a client that
\* answers as asked; the others meet every store and every client
HandleInit ==
    /\ store \in HandleContents
    /\ now \in ClockStarts
    /\ req \in Requests
    /\ source \in Sources
    /\ client \in Clients
    /\ Accepted(req) \/ (source = "connected" /\ client = "object")
    /\ Idle
    /\ c_in = [deadline |-> None, status |-> None]
    /\ c_out = Pending
    /\ run = NoRun
    /\ calls = NoCalls
    /\ fmt = NoFormat
    /\ other = NoOther
    /\ first = NoFirst

HandleNext == Reject \/ Next

SpecHandle == HandleInit /\ [][HandleNext]_vars

-----------------------------------------------------------------------------
(* Requests whose fetch or analysis raises *)

\* Largest snapshot of these requests
MaxFailingTasks == 2

\* (status, deadline) with a null status and with a null deadline
NullStatus == <<None, Str(<<"2", "0", "2", "4", "-", "0", "3", "-", "0", "9">>)>>
NullDeadline == <<Str(<<"t", "o", "d", "o">>), None>>

\* Documents that classify, documents that make calculate_risk_level raise,
\* and documents whose depends_on is a list
FailingContents ==
    Snapshots(MaxFailingTasks, {Overdue, DueLater, NullStatus, NullDeadline},
              {None, Str(<<"A">>), PyList(<<<<"A">>>>)})

\* A deadline.monitor request with and without request_id, on a store that
\* answers or raises
FailingInit ==
    /\ store \in FailingContents
    /\ now \in ClockStarts
    /\ req \in {MonitorRequest, Request("object", Str(MonitorIntent), Missing, TRUE, 0)}
    /\ source \in {"connected", "failing"}
    /\ Idle
    /\ c_in = [deadline |-> None, status |-> None]
    /\ c_out = Pending
    /\ run = NoRun
    /\ calls = NoCalls
    /\ client = "unconfigured"
    /\ fmt = NoFormat
    /\ other = NoOther
    /\ first = NoFirst

SpecFailing == FailingInit /\ [][Next]_vars

-----------------------------------------------------------------------------
(* Runs of format_time_remaining alone, beside requests *)

\* Largest day count, past or to come, that is formatted
MaxDays == 120

\* Documents overdue, due tomorrow and due later
FormatContents == Snapshots(MaxShapeTasks, {Overdue, DueTomorrow, DueLater}, {None})

FormatInit ==
    /\ fmt \in {[NoFormat EXCEPT !.days = d] : d \in (-MaxDays)..MaxDays}
    /\ store \in (IF fmt.days \in {-MaxDays, 0, MaxDays} THEN FormatContents ELSE {<<>>})
    /\ now \in ClockStarts
    /\ Idle
    /\ c_in = [deadline |-> None, status |-> None]
    /\ c_out = Pending
    /\ run = NoRun
    /\ calls = NoCalls
    /\ client = "unconfigured"
    /\ source = "connected"
    /\ req = MonitorRequest
    /\ first = NoFirst
    /\ other = NoOther

\* One call of format_time_remaining(days)
Format ==
    /\ ~fmt.called
    /\ fmt' = [fmt EXCEPT !.called = TRUE, !.text = format_time_remaining(fmt.days)]
    /\ UNCHANGED <<store, now, ticks, pc, tasks, analysis, assembled, response, c_in, c_out, run, first, other, req, source, client, calls>>

FormatNext == Format \/ Next

SpecFormat == FormatInit /\ [][FormatNext]_vars

-----------------------------------------------------------------------------
(* Runs of calculate_risk_level alone *)

ClassifyInit ==
    /\ store = <<>>
    /\ now \in ClockStarts
    /\ Idle
    /\ c_in \in [deadline : DeadlineInputs, status : StatusInputs]
    /\ c_out = Pending
    /\ run = NoRun
    /\ calls = NoCalls
    /\ client = "unconfigured"
    /\ source = "connected"
    /\ req = MonitorRequest
    /\ fmt = NoFormat
    /\ other = NoOther
    /\ first = NoFirst

\* One call of calculate_risk_level(deadline_str, status)
Classify ==
    /\ c_out = Pending
    /\ c_out' = calculate_risk_level(c_in.deadline, c_in.status, now)
    /\ UNCHANGED <<store, now, ticks, pc, tasks, analysis, assembled, response, c_in, run, first, other, fmt, req, source, client, calls>>

ClassifyNext == Classify

SpecClassify == ClassifyInit /\ [][ClassifyNext]_vars

-----------------------------------------------------------------------------
(* Runs of calculate_risk_level alone, beside requests *)

\* Largest snapshot of the requests that run beside the classifier
MaxTierTasks == 2

\* Documents of every tier that depend on nothing or on the first
TierContents == Snapshots(MaxTierTasks, TierKinds, {None, Str(<<"A">>)})

\* Every pair of arguments beside a request on an empty collection, and one
\* pair beside a request on each of the snapshots
TiersInit ==
    /\ c_in \in [deadline : DeadlineInputs, status : StatusInputs]
    /\ store \in (IF c_in = [deadline |-> Str(<<>>), status |-> Str(<<>>)]
                    THEN TierContents ELSE {<<>>})
    /\ now \in ClockStarts
    /\ Idle
    /\ c_out = Pending
    /\ run = NoRun
    /\ calls = NoCalls
    /\ client = "unconfigured"
    /\ source = "connected"
    /\ req = MonitorRequest
    /\ fmt = NoFormat
    /\ other = NoOther
    /\ first = NoFirst

TiersNext == Classify \/ Next

SpecTiers == TiersInit /\ [][TiersNext]_vars

-----------------------------------------------------------------------------
(* analyze_cascading_risks, one loop iteration at a time *)

\* The longest snapshot of the stepwise runs
MaxLoopTasks == 3

\* Documents that are overdue or far from due, that depend on nothing, on one
\* of the first three documents (on themselves, on each other, in a ring) or on
\* a list
LoopKinds == {Overdue, DueLater}
LoopDeps == {Missing, Str(<<"A">>), Str(<<"B">>), Str(<<"C">>), PyList(<<<<"A">>>>)}
LoopContents == Snapshots(MaxLoopTasks, LoopKinds, LoopDeps)

LoopsInit ==
    /\ store \in LoopContents
    /\ now = Today * TicksPerDay
    /\ Idle
    /\ c_in = [deadline |-> None, status |-> None]
    /\ c_out = Pending
    /\ run = NoRun
    /\ calls = NoCalls
    /\ client = "unconfigured"
    /\ source = "connected"
    /\ req = MonitorRequest
    /\ fmt = NoFormat
    /\ other = NoOther
    /\ first = NoFirst

\* The depends_on of the document whose ID is `id`, from document i on
RECURSIVE C6Mut_DeclaredBy(_, _)
C6Mut_DeclaredBy(id, i) ==
    IF i > Len(tasks) THEN <<>>
    ELSE IF Get(tasks[i], "task_id", None) = id
        THEN (IF Truthy(Get(tasks[i], "depends_on", None))
                THEN DepsOf(Get(tasks[i], "depends_on", None)) ELSE <<>>)
    ELSE C6Mut_DeclaredBy(id, i + 1)

\* Line 160 as a walk upstream: after a predecessor, the predecessors that
\* predecessor declares are visited too
C6Mut_RemainingDeps(deps) == Tail(deps) \o C6Mut_DeclaredBy(Head(deps), 1)

\* Line 160: after dep_id the for loop goes on with the rest of deps
RemainingDeps(deps) == Tail(deps)

\* Lines 113-115 and 150-151 with the graph kept at module level: a call
\* starts from the graph the other caller has built so far
C16Mut_FreshFrame == [NoRun EXCEPT !.phase = "init", !.graph = other.run.graph]

\* Lines 113-115 and 150-151: the locals of a call, all empty
FreshFrame == [NoRun EXCEPT !.phase = "init"]

\* Line 149: the call
Call ==
    /\ run.phase = "none"
    /\ tasks' = store
    /\ run' = FreshFrame
    /\ UNCHANGED <<store, now, ticks, pc, analysis, assembled, response, c_in, c_out, first, other, fmt, req, source, client, calls>>

\* Lines 119-125: the frame r after the body of the first loop gave acc
AfterInit(r, acc) ==
    IF acc.exc # "" THEN [r EXCEPT !.phase = "raised", !.exc = acc.exc]
    ELSE [r EXCEPT !.graph = acc.graph, !.status_map = acc.status_map,
                   !.risk_map = acc.risk_map, !.i = @ + 1]

\* Lines 118-125: one iteration of the first loop, or its end
InitLoopStep(r, ts, clock) ==
    IF r.i > Len(ts)
        THEN [r EXCEPT !.phase = "populate", !.i = 1]
        ELSE AfterInit(r, InitTask(r, ts[r.i], clock))

InitLoop ==
    /\ run.phase = "init"
    /\ run' = InitLoopStep(run, tasks, now)
    /\ UNCHANGED <<store, now, ticks, pc, tasks, analysis, assembled, response, c_in, c_out, first, other, fmt, req, source, client, calls>>

\* Lines 129-134 and 155-159: the frame r at the for loop over the deps of
\* depends_on, or at the next task when depends_on is falsy
EnterDeps(r, depends_on, inner) ==
    IF ~Truthy(depends_on) THEN [r EXCEPT !.i = @ + 1]
    ELSE [r EXCEPT !.phase = inner, !.deps = DepsOf(depends_on)]

\* Lines 128-134: the second loop takes its next task, or ends (line 140)
PopulateLoopStep(r, ts, clock) ==
    IF r.i > Len(ts)
        THEN [r EXCEPT !.phase = "blocked", !.i = 1]
        ELSE EnterDeps(r, Get(ts[r.i], "depends_on", None), "edges")

PopulateLoop ==
    /\ run.phase = "populate"
    /\ run' = PopulateLoopStep(run, tasks, now)
    /\ UNCHANGED <<store, now, ticks, pc, tasks, analysis, assembled, response, c_in, c_out, first, other, fmt, req, source, client, calls>>

\* Lines 137-138 for dep_id
AddEdge(r, dep_id, t_id) ==
    IF ~Hashable(dep_id) THEN [r EXCEPT !.phase = "raised", !.exc = "TypeError"]
    ELSE IF DictHas(r.graph, dep_id)
        THEN [r EXCEPT !.graph = DictSet(r.graph, dep_id, Append(DictGet(r.graph, dep_id), t_id)),
                       !.deps = Tail(r.deps)]
    ELSE [r EXCEPT !.deps = Tail(r.deps)]

\* Lines 136-138: one iteration of the loop over deps, or its end
EdgeLoopStep(r, ts, clock) ==
    IF r.deps = <<>>
        THEN [r EXCEPT !.phase = "populate", !.i = @ + 1]
        ELSE AddEdge(r, Head(r.deps), Get(ts[r.i], "task_id", None))

EdgeLoop ==
    /\ run.phase = "edges"
    /\ run' = EdgeLoopStep(run, tasks, now)
    /\ UNCHANGED <<store, now, ticks, pc, tasks, analysis, assembled, response, c_in, c_out, first, other, fmt, req, source, client, calls>>

\* Lines 154-159: the third loop takes its next task, or ends
BlockedLoopStep(r, ts, clock) ==
    IF r.i > Len(ts)
        THEN [r EXCEPT !.phase = "bottlenecks", !.i = 1]
        ELSE EnterDeps(r, Get(ts[r.i], "depends_on", None), "checks")

BlockedLoop ==
    /\ run.phase = "blocked"
    /\ run' = BlockedLoopStep(run, tasks, now)
    /\ UNCHANGED <<store, now, ticks, pc, tasks, analysis, assembled, response, c_in, c_out, first, other, fmt, req, source, client, calls>>

\* Lines 162-164 for dep_id
CheckDep(r, dep_id, t_id) ==
    IF ~Hashable(dep_id) THEN [r EXCEPT !.phase = "raised", !.exc = "TypeError"]
    ELSE IF DictHas(r.risk_map, dep_id) /\ DictGet(r.risk_map, dep_id) \in BlockingTiers
        THEN [r EXCEPT !.blocked_tasks = @ \cup {t_id}, !.deps = RemainingDeps(r.deps)]
    ELSE [r EXCEPT !.deps = RemainingDeps(r.deps)]

\* Lines 160-164: one iteration of the loop over deps, or its end
CheckLoopStep(r, ts, clock) ==
    IF r.deps = <<>>
        THEN [r EXCEPT !.phase = "blocked", !.i = @ + 1]
        ELSE CheckDep(r, Head(r.deps), Get(ts[r.i], "task_id", None))

CheckLoop ==
    /\ run.phase = "checks"
    /\ run' = CheckLoopStep(run, tasks, now)
    /\ UNCHANGED <<store, now, ticks, pc, tasks, analysis, assembled, response, c_in, c_out, first, other, fmt, req, source, client, calls>>

\* Lines 168-169 for the item of the graph at position r.i
NoteBottleneck(r, item) ==
    IF Len(item.v) > BottleneckFanOut
        THEN [r EXCEPT !.bottlenecks = Append(@, item.k), !.i = @ + 1]
        ELSE [r EXCEPT !.i = @ + 1]

\* Lines 167-171: one iteration of the last loop, or the return
BottleneckLoopStep(r, ts, clock) ==
    IF r.i > Len(r.graph)
        THEN [r EXCEPT !.phase = "returned"]
        ELSE NoteBottleneck(r, r.graph[r.i])

BottleneckLoop ==
    /\ run.phase = "bottlenecks"
    /\ run' = BottleneckLoopStep(run, tasks, now)
    /\ UNCHANGED <<store, now, ticks, pc, tasks, analysis, assembled, response, c_in, c_out, first, other, fmt, req, source, client, calls>>

LoopNext ==
    Call \/ InitLoop \/ PopulateLoop \/ EdgeLoop \/ BlockedLoop \/ CheckLoop \/ BottleneckLoop

\* The call has returned (line 171) or an exception left it
RunEnded == run.phase \in {"returned", "raised"}

\* The interpreter goes on with a call that has a step left: weak fairness of
\* LoopNext, WF_vars(LoopNext), with ENABLED <<LoopNext>>_vars written as the
\* state predicate it equals, ~RunEnded.
LoopFairness == []<>RunEnded \/ []<><<LoopNext>>_vars

SpecLoops == LoopsInit /\ [][LoopNext]_vars /\ LoopFairness

-----------------------------------------------------------------------------
(* Two callers run the analysis at once, each on its own snapshot *)

\* Largest snapshot of the first caller
MaxPairTasks == 2

PairContents == Snapshots(MaxPairTasks, {Overdue, DueLater}, {Missing, Str(<<"A">>)})

\* The snapshots of the second caller: an overdue document alone, and with a
\* document that depends on it
OtherContents ==
    {<<Task(IdAt(1), Overdue[1], Overdue[2], Missing)>>,
     <<Task(IdAt(1), Overdue[1], Overdue[2], Missing),
       Task(IdAt(2), DueLater[1], DueLater[2], Str(<<"A">>))>>}

PairInit ==
    /\ store \in PairContents
    /\ now = Today * TicksPerDay
    /\ Idle
    /\ c_in = [deadline |-> None, status |-> None]
    /\ c_out = Pending
    /\ run = NoRun
    /\ calls = NoCalls
    /\ client = "unconfigured"
    /\ source = "connected"
    /\ req = MonitorRequest
    /\ fmt = NoFormat
    /\ first = NoFirst
    /\ other \in {[NoOther EXCEPT !.ts = ts] : ts \in OtherContents}

\* The next step of a call with frame r on the snapshot ts
FrameStep(r, ts, clock) ==
    CASE r.phase = "none" -> FreshFrame
      [] r.phase = "init" -> InitLoopStep(r, ts, clock)
      [] r.phase = "populate" -> PopulateLoopStep(r, ts, clock)
      [] r.phase = "edges" -> EdgeLoopStep(r, ts, clock)
      [] r.phase = "blocked" -> BlockedLoopStep(r, ts, clock)
      [] r.phase = "checks" -> CheckLoopStep(r, ts, clock)
      [] r.phase = "bottlenecks" -> BottleneckLoopStep(r, ts, clock)

\* A step of the second caller's call
OtherStep ==
    /\ other.run.phase \in {"none", "init", "populate", "edges", "blocked", "checks", "bottlenecks"}
    /\ other' = [other EXCEPT !.run = FrameStep(other.run, other.ts, now)]
    /\ UNCHANGED <<store, now, ticks, pc, tasks, analysis, assembled, response, c_in, c_out, run, first, fmt, req, source, client, calls>>

\* Lines 283-307 in the first caller, after its call returned
RunAssemble ==
    /\ run.phase = "returned"
    /\ \E order \in Orderings(run.blocked_tasks) :
         assembled' = [r |-> Assembly(tasks, order, run.bottlenecks, now), at |-> now]
    /\ run' = [run EXCEPT !.phase = "assembled"]
    /\ UNCHANGED <<store, now, ticks, pc, tasks, analysis, response, c_in, c_out, first, other, fmt, req, source, client, calls>>

\* Lines 283-307 in the second caller
OtherAssemble ==
    /\ other.run.phase = "returned"
    /\ \E order \in Orderings(other.run.blocked_tasks) :
         other' = [other EXCEPT
                      !.assembled = [r |-> Assembly(other.ts, order, other.run.bottlenecks, now),
                                     at |-> now],
                      !.run = [other.run EXCEPT !.phase = "assembled"]]
    /\ UNCHANGED <<store, now, ticks, pc, tasks, analysis, assembled, response, c_in, c_out, run, first, fmt, req, source, client, calls>>

PairNext == LoopNext \/ RunAssemble \/ OtherStep \/ OtherAssemble

SpecPair == PairInit /\ [][PairNext]_vars

-----------------------------------------------------------------------------
(* Vocabulary of the properties *)

TaskIndices == 1..Len(tasks)

IdOf(i) == tasks[i].task_id

\* The task's own tier at the instant `clock`, dependencies ignored
IntrinsicTier(i, clock) ==
    calculate_risk_level(tasks[i].task_deadline, tasks[i].task_status, clock).risk

\* Task i names `id` in its depends_on string, split at the commas and trimmed
Declares(i, id) ==
    /\ tasks[i].depends_on.t = "str"
    /\ \E k \in 1..Len(Split(tasks[i].depends_on.s)) :
            Str(Strip(Split(tasks[i].depends_on.s)[k])) = id

\* The tasks that name task j as a predecessor
DependentsOf(j) == {i \in TaskIndices : Declares(i, IdOf(j))}

\* The cascade analysis returned
Analyzed == pc \in {"analyzed", "assembled"}

\* C1: a task is in the blocked set if and only if one of the IDs its
\* depends_on declares is the ID of a task of the snapshot whose intrinsic tier
\* is CRITICAL or HIGH; the blocked set holds IDs of the snapshot only.
C1_BlockedIffRiskyPredecessor ==
    Analyzed =>
        /\ analysis.a.blocked_tasks \subseteq {IdOf(i) : i \in TaskIndices}
        /\ \A i \in TaskIndices :
                IdOf(i) \in analysis.a.blocked_tasks
                <=> \E j \in TaskIndices :
                        /\ Declares(i, IdOf(j))
                        /\ IntrinsicTier(j, analysis.at) \in {"CRITICAL", "HIGH"}

\* A task that declares two predecessors, one of them HIGH, is blocked beside a
\* task whose declared predecessors are all harmless or unknown.
C1_Witness ==
    /\ pc = "analyzed"
    /\ \E i, j \in TaskIndices :
            /\ IdOf(i) \in analysis.a.blocked_tasks
            /\ Len(Split(tasks[i].depends_on.s)) > 1
            /\ \E k \in TaskIndices :
                    Declares(i, IdOf(k)) /\ IntrinsicTier(k, analysis.at) = "HIGH"
            /\ IdOf(j) \notin analysis.a.blocked_tasks
            /\ Truthy(tasks[j].depends_on)

\* C2: in the result assembly a task is reported BLOCKED exactly when its ID
\* is in the blocked set and its intrinsic tier is HIGH, MEDIUM, LOW or UNKNOWN;
\* every other task is reported with its intrinsic tier.
C2_EffectiveTier ==
    pc = "assembled" =>
        /\ Len(assembled.r.analyzed_tasks) = Len(tasks)
        /\ \A i \in TaskIndices :
                /\ assembled.r.analyzed_tasks[i].id = IdOf(i)
                /\ assembled.r.analyzed_tasks[i].risk = "BLOCKED"
                   <=> /\ IdOf(i) \in analysis.a.blocked_tasks
                       /\ IntrinsicTier(i, assembled.at) \in {"HIGH", "MEDIUM", "LOW", "UNKNOWN"}
                /\ assembled.r.analyzed_tasks[i].risk # "BLOCKED"
                   => assembled.r.analyzed_tasks[i].risk = IntrinsicTier(i, assembled.at)

\* A finished task of the blocked set keeps COMPLETED beside an overdue one that
\* keeps CRITICAL.
C2_Witness ==
    /\ pc = "assembled"
    /\ \E i, j \in TaskIndices :
            /\ {IdOf(i), IdOf(j)} \subseteq analysis.a.blocked_tasks
            /\ assembled.r.analyzed_tasks[i].risk = "COMPLETED"
            /\ assembled.r.analyzed_tasks[j].risk = "CRITICAL"

\* C3: a task is in the bottleneck list if and only if more than one task of
\* the snapshot directly depends on it, whatever the shape of depends_on.
C3_BottleneckIffFanOut ==
    Analyzed =>
        \A j \in TaskIndices :
            InSeq(IdOf(j), analysis.a.bottlenecks) <=> Cardinality(DependentsOf(j)) > 1

\* C4: the keys of the graph are exactly the task IDs of the snapshot, T's ID
\* is in graph[P] if and only if T declares P's ID, and a depends_on string that
\* names the ID of no task raises nothing.
C4_GraphKeysAndEdges ==
    /\ Analyzed =>
        /\ DictKeys(analysis.a.graph) = {IdOf(i) : i \in TaskIndices}
        /\ \A p, t \in TaskIndices :
                InSeq(IdOf(t), DictGet(analysis.a.graph, IdOf(p))) <=> Declares(t, IdOf(p))
    /\ pc = "raised" => \E i \in TaskIndices : tasks[i].depends_on.t \notin {"str", "missing", "NoneType"}

\* A task declares, with blanks, the ID of another task and an ID that no task
\* has: the first gets the edge, the second no key.
C4_Witness ==
    /\ pc = "analyzed"
    /\ \E p, t \in TaskIndices :
            /\ p # t
            /\ InSeq(IdOf(t), DictGet(analysis.a.graph, IdOf(p)))
            /\ \E k \in 1..Len(Split(tasks[t].depends_on.s)) :
                    /\ Split(tasks[t].depends_on.s)[k] # Strip(Split(tasks[t].depends_on.s)[k])
                    /\ Str(Strip(Split(tasks[t].depends_on.s)[k])) = IdOf(p)
    /\ \E t \in TaskIndices : \E k \in 1..Len(Split(tasks[t].depends_on.s)) :
            /\ Truthy(tasks[t].depends_on)
            /\ Str(Strip(Split(tasks[t].depends_on.s)[k])) \notin {IdOf(i) : i \in TaskIndices}

\* ", ".join(ids)
RECURSIVE JoinIds(_)
JoinIds(ids) ==
    IF Len(ids) = 0 THEN <<>>
    ELSE IF Len(ids) = 1 THEN ids[1]
    ELSE ids[1] \o <<",", " ">> \o JoinIds(Tail(ids))

\* The snapshot with every depends_on list written as the comma-separated
\* string of its IDs
AsStrings(ts) ==
    [i \in 1..Len(ts) |->
        IF ts[i].depends_on.t = "list"
            THEN [ts[i] EXCEPT !.depends_on = Str(JoinIds(ts[i].depends_on.l))]
            ELSE ts[i]]

\* C5: a snapshot whose tasks give depends_on as a list of IDs gets the graph,
\* the blocked set and the bottleneck list of the same snapshot with depends_on
\* given as the comma-separated string of those IDs.
C5_ListLikeString ==
    (pc \in {"analyzed", "raised"} /\ \E i \in TaskIndices : tasks[i].depends_on.t = "list")
        => analysis.a = analyze_cascading_risks(AsStrings(tasks), analysis.at)

\* Tasks a and b declare each other
MutualPair(a, b) == a # b /\ Declares(a, IdOf(b)) /\ Declares(b, IdOf(a))

\* C6: on every snapshot, with self-dependencies and cycles, the call of
\* analyze_cascading_risks (build_dependency_graph within it) comes to its end;
\* when it has returned, two tasks that declare each other are each in the
\* other's dependent-list, and in a two-task cycle of LOW tasks neither is in
\* the blocked set.
C6_TerminatesOnCycles ==
    <>( /\ RunEnded
        /\ run.phase = "returned" =>
            \A a, b \in TaskIndices :
                MutualPair(a, b) =>
                    /\ InSeq(IdOf(a), DictGet(run.graph, IdOf(b)))
                    /\ InSeq(IdOf(b), DictGet(run.graph, IdOf(a)))
                    /\ (Len(tasks) = 2 /\ IntrinsicTier(a, now) = "LOW"
                                       /\ IntrinsicTier(b, now) = "LOW")
                        => {IdOf(a), IdOf(b)} \cap run.blocked_tasks = {} )

\* The call returned on the two-task cycle of LOW tasks: each is in the
\* other's dependent-list and none is blocked.
C6_Witness ==
    /\ run.phase = "returned"
    /\ Len(tasks) = 2
    /\ MutualPair(1, 2)
    /\ IntrinsicTier(1, now) = "LOW" /\ IntrinsicTier(2, now) = "LOW"
    /\ DictGet(run.graph, IdOf(1)) = <<IdOf(2)>>
    /\ DictGet(run.graph, IdOf(2)) = <<IdOf(1)>>
    /\ run.blocked_tasks = {}

\* C7: a task whose declared predecessors all have intrinsic tier MEDIUM, LOW,
\* UNKNOWN or COMPLETED (at the instant of the cascade analysis, or at the
\* instant of the assembly) is not in the blocked set and is not reported
\* BLOCKED.
C7_NoPropagation ==
    pc = "assembled" =>
        \A i \in TaskIndices : \A clock \in {analysis.at, assembled.at} :
            (\A j \in TaskIndices :
                Declares(i, IdOf(j))
                => IntrinsicTier(j, clock) \in {"MEDIUM", "LOW", "UNKNOWN", "COMPLETED"})
            => /\ IdOf(i) \notin analysis.a.blocked_tasks
               /\ assembled.r.analyzed_tasks[i].risk # "BLOCKED"

\* A chain: an overdue task, a task that depends on it and is reported
\* BLOCKED, and a third task that depends on the second and is not.
C7_Witness ==
    /\ pc = "assembled"
    /\ \E a, b, c \in TaskIndices :
            /\ assembled.r.analyzed_tasks[a].risk = "CRITICAL"
            /\ Declares(b, IdOf(a))
            /\ assembled.r.analyzed_tasks[b].risk = "BLOCKED"
            /\ Declares(c, IdOf(b))
            /\ ~Declares(c, IdOf(a))
            /\ assembled.r.analyzed_tasks[c].risk \in {"LOW", "MEDIUM"}

-----------------------------------------------------------------------------
(* Properties of calculate_risk_level *)

UpperOf(c) ==
    CASE c = "d" -> "D" [] c = "o" -> "O" [] c = "n" -> "N" [] c = "e" -> "E"
      [] c = "c" -> "C" [] c = "m" -> "M" [] c = "p" -> "P" [] c = "l" -> "L"
      [] c = "t" -> "T"

\* s is the lower-case word w in some letter case
SpelledAs(s, w) ==
    /\ Len(s) = Len(w)
    /\ \A i \in 1..Len(w) : s[i] \in {w[i], UpperOf(w[i])}

\* The status is a str that reads "done" or "completed" in some letter case
IsDoneStatus(status) ==
    /\ status.t = "str"
    /\ \/ SpelledAs(status.s, <<"d", "o", "n", "e">>)
       \/ SpelledAs(status.s, <<"c", "o", "m", "p", "l", "e", "t", "e", "d">>)

\* s has the form YYYY-MM-DD and names a day of the calendar
ValidIsoDate(s) ==
    /\ Len(s) = 10
    /\ s[5] = "-" /\ s[8] = "-"
    /\ \A i \in {1, 2, 3, 4, 6, 7, 9, 10} : s[i] \in Digits
    /\ YearField(s) >= 1
    /\ 10 * DigitVal(s[6]) + DigitVal(s[7]) \in 1..12
    /\ 10 * DigitVal(s[9]) + DigitVal(s[10])
         \in 1..DaysInMonth(YearField(s), 10 * DigitVal(s[6]) + DigitVal(s[7]))

Called == c_out # Pending

\* C8: a status that reads "done" or "completed" in any letter case gives
\* (COMPLETED, 0), whatever the deadline argument is.
C8_DoneIsCompleted ==
    (Called /\ IsDoneStatus(c_in.status)) => c_out = Returned("COMPLETED", 0)

\* "Done" and "COMPLETED" with a deadline that is None or does not parse
C8_Witness ==
    /\ c_out = Returned("COMPLETED", 0)
    /\ c_in.status.s # Lower(c_in.status.s)
    /\ c_in.deadline.t = "NoneType" \/ ~Strptime(c_in.deadline.s).ok

\* C9: for a status str that is no done synonym and a deadline str that is not
\* a valid YYYY-MM-DD date, the call returns (UNKNOWN, 0) and raises nothing.
C9_InvalidDeadlineUnknown ==
    ( /\ Called
      /\ c_in.status.t = "str" /\ ~IsDoneStatus(c_in.status)
      /\ c_in.deadline.t = "str" /\ ~ValidIsoDate(c_in.deadline.s) )
    => c_out = Returned("UNKNOWN", 0)

\* C10: for a status that is no done synonym and a deadline that parses, the
\* tier follows from the returned day count alone: CRITICAL below 0, HIGH at 0,
\* MEDIUM at 1 and 2, LOW from 3 on.
C10_TierFromDays ==
    ( /\ Called
      /\ c_in.status.t = "str" /\ ~IsDoneStatus(c_in.status)
      /\ c_in.deadline.t = "str" /\ Strptime(c_in.deadline.s).ok )
    => /\ c_out.exc = ""
       /\ c_out.days < 0 => c_out.risk = "CRITICAL"
       /\ c_out.days = 0 => c_out.risk = "HIGH"
       /\ c_out.days \in {1, 2} => c_out.risk = "MEDIUM"
       /\ c_out.days >= 3 => c_out.risk = "LOW"

\* The last day count that is still MEDIUM
C10_Witness == c_out = Returned("MEDIUM", 2)

\* The instant of midnight of the day the deadline string names
MidnightOf(s) == ToOrdinal(Strptime(s).y, Strptime(s).m, Strptime(s).d) * TicksPerDay

\* C11: for a status that is no done synonym and a deadline that parses, the
\* returned day count is the floor of (deadline midnight - now) in days, and a
\* deadline midnight that lies before now gives CRITICAL with a negative count.
C11_FloorOfDays ==
    ( /\ Called
      /\ c_in.status.t = "str" /\ ~IsDoneStatus(c_in.status)
      /\ c_in.deadline.t = "str" /\ Strptime(c_in.deadline.s).ok )
    => /\ c_out.exc = ""
       /\ c_out.days * TicksPerDay <= MidnightOf(c_in.deadline.s) - now
       /\ MidnightOf(c_in.deadline.s) - now < (c_out.days + 1) * TicksPerDay
       /\ MidnightOf(c_in.deadline.s) < now
            => c_out.risk = "CRITICAL" /\ c_out.days < 0

\* The deadline is today's date and midnight has passed
C11_Witness ==
    /\ c_in.deadline.t = "str" /\ Strptime(c_in.deadline.s).ok
    /\ MidnightOf(c_in.deadline.s) = Today * TicksPerDay
    /\ now > Today * TicksPerDay
    /\ c_out = Returned("CRITICAL", -1)

\* How many calendar days the date the deadline string names lies after the
\* date of the current instant
DaysAhead(s) == (MidnightOf(s) \div TicksPerDay) - (now \div TicksPerDay)

AtMidnight == now % TicksPerDay = 0

\* C26: for a status that is no done synonym and a deadline k >= 1 calendar
\* days after today's date, the day count is k at midnight and k - 1 at every
\* other time of day; so 2 days ahead is MEDIUM with a count of 1 or 2, and 5
\* or more days ahead is LOW with a count of at least 3.
C26_DayCountOffByTimeOfDay ==
    ( /\ Called
      /\ c_in.status.t = "str" /\ ~IsDoneStatus(c_in.status)
      /\ c_in.deadline.t = "str" /\ Strptime(c_in.deadline.s).ok
      /\ DaysAhead(c_in.deadline.s) >= 1 )
    => /\ c_out.exc = ""
       /\ c_out.days = IF AtMidnight THEN DaysAhead(c_in.deadline.s)
                                     ELSE DaysAhead(c_in.deadline.s) - 1
       /\ DaysAhead(c_in.deadline.s) = 2 =>
            c_out.risk = "MEDIUM" /\ c_out.days \in {1, 2}
       /\ DaysAhead(c_in.deadline.s) >= 5 =>
            c_out.risk = "LOW" /\ c_out.days >= 3

\* A deadline 2 calendar days ahead was classified after midnight, with a count of 1
C26_Witness ==
    /\ Called /\ ~AtMidnight
    /\ c_in.deadline.t = "str" /\ Strptime(c_in.deadline.s).ok
    /\ DaysAhead(c_in.deadline.s) = 2
    /\ c_out = Returned("MEDIUM", 1)

\* The tiers calculate_risk_level gives
IntrinsicTiers == {"COMPLETED", "CRITICAL", "HIGH", "MEDIUM", "LOW", "UNKNOWN"}

\* C25: calculate_risk_level returns one of COMPLETED, CRITICAL, HIGH, MEDIUM,
\* LOW, UNKNOWN and never BLOCKED; no entry of the risk map is BLOCKED; a task
\* is reported BLOCKED only by the override of the assembly, that is when it is
\* in the blocked list and its own tier is neither CRITICAL nor COMPLETED.
C25_BlockedOnlyByOverride ==
    /\ (Called /\ c_out.exc = "") => c_out.risk \in IntrinsicTiers
    /\ Analyzed =>
        \A k \in 1..Len(analysis.a.risk_map) :
            analysis.a.risk_map[k].v \in IntrinsicTiers
    /\ pc = "assembled" =>
        \A i \in TaskIndices :
            /\ IntrinsicTier(i, assembled.at) \in IntrinsicTiers
            /\ assembled.r.analyzed_tasks[i].risk = "BLOCKED" =>
                /\ InSeq(IdOf(i), analysis.blocked)
                /\ IntrinsicTier(i, assembled.at) \notin {"CRITICAL", "COMPLETED"}
            /\ assembled.r.analyzed_tasks[i].risk # "BLOCKED" =>
                assembled.r.analyzed_tasks[i].risk = IntrinsicTier(i, assembled.at)

\* The classifier answered UNKNOWN for a deadline that does not parse, and a
\* request reported a task without deadline as BLOCKED
C25_Witness ==
    /\ Called /\ c_out = Returned("UNKNOWN", 0)
    /\ pc = "assembled"
    /\ \E i \in TaskIndices :
        /\ assembled.r.analyzed_tasks[i].risk = "BLOCKED"
        /\ IntrinsicTier(i, assembled.at) = "UNKNOWN"

\* The place in the snapshot of the task with the given ID
PlaceOf(id) == CHOOSE i \in TaskIndices : IdOf(i) = id

\* C27: no task ID appears more than once in the dependent-list of any
\* predecessor, and the dependents of a predecessor appear in the order in which
\* their tasks occur in the snapshot.
C27_DependentListsAreOrderedSets ==
    Analyzed =>
        \A k \in 1..Len(analysis.a.graph) :
            /\ \A p, q \in 1..Len(analysis.a.graph[k].v) :
                p # q => analysis.a.graph[k].v[p] # analysis.a.graph[k].v[q]
            /\ \A p, q \in 1..Len(analysis.a.graph[k].v) :
                p < q => PlaceOf(analysis.a.graph[k].v[p]) <= PlaceOf(analysis.a.graph[k].v[q])

-----------------------------------------------------------------------------
(* Properties of the result assembly *)

\* C12: after a successful assembly the histogram has the seven tiers, the
\* count of a tier is the number of tasks reported with it, and the seven
\* counts sum to the number of tasks of the snapshot.
C12_HistogramCountsEachOnce ==
    pc = "assembled" =>
        /\ DOMAIN assembled.r.risk_counts
             = {"CRITICAL", "HIGH", "MEDIUM", "LOW", "COMPLETED", "UNKNOWN", "BLOCKED"}
        /\ Len(assembled.r.analyzed_tasks) = Len(tasks)
        /\ \A t \in DOMAIN assembled.r.risk_counts :
                assembled.r.risk_counts[t]
                = Cardinality({i \in TaskIndices : assembled.r.analyzed_tasks[i].risk = t})
        /\ assembled.r.risk_counts["CRITICAL"] + assembled.r.risk_counts["HIGH"]
           + assembled.r.risk_counts["MEDIUM"] + assembled.r.risk_counts["LOW"]
           + assembled.r.risk_counts["COMPLETED"] + assembled.r.risk_counts["UNKNOWN"]
           + assembled.r.risk_counts["BLOCKED"] = Len(tasks)

\* Two tasks are counted as BLOCKED beside the overdue task that blocks them
C12_Witness ==
    /\ pc = "assembled"
    /\ assembled.r.risk_counts["BLOCKED"] = 2
    /\ assembled.r.risk_counts["CRITICAL"] = 1
    /\ Len(tasks) = 3

\* The field of task i is absent or null
Lacks(i, field) == tasks[i][field].t \in {"missing", "NoneType"}

\* C13: on a snapshot with a task that lacks task_status, task_deadline,
\* task_id or depends_on (absent or null), the graph construction, the cascade
\* analysis and the assembly raise nothing; every task gets a record, a task
\* that lacks its deadline gets tier UNKNOWN in the risk map, and a task that
\* lacks depends_on is in no dependent-list.
C13_MalformedTaskDegrades ==
    /\ pc # "raised"
    /\ Analyzed =>
        \A i \in TaskIndices :
            /\ Lacks(i, "task_deadline")
                => DictGet(analysis.a.risk_map, Get(tasks[i], "task_id", None)) = "UNKNOWN"
            /\ Lacks(i, "depends_on")
                => \A k \in 1..Len(analysis.a.graph) :
                        ~InSeq(Get(tasks[i], "task_id", None), analysis.a.graph[k].v)
    /\ pc = "assembled" => Len(assembled.r.analyzed_tasks) = Len(tasks)

\* The set of the items of a list
ItemsOf(seq) == {seq[i] : i \in 1..Len(seq)}

\* Both handlings of the request read the same instants
SameInstants ==
    /\ first.seen
    /\ pc \in {"assembled", "done"}
    /\ response.http # 500
    /\ first.assembled.r.exc = ""
    /\ analysis.at = first.analysis.at
    /\ assembled.at = first.assembled.at

\* C14: two handlings of the same snapshot that read the same instants give
\* the same task records (tier, day count, time text, bottleneck flag), the
\* same histogram, the same blocked set and the same bottleneck list, whatever
\* order list(blocked_tasks) took in each.
C14_SameResultTwice ==
    SameInstants =>
        /\ assembled.r.analyzed_tasks = first.assembled.r.analyzed_tasks
        /\ assembled.r.risk_counts = first.assembled.r.risk_counts
        /\ ItemsOf(analysis.blocked) = ItemsOf(first.analysis.blocked)
        /\ analysis.a.bottlenecks = first.analysis.a.bottlenecks

\* The two handlings got the blocked IDs in different orders
C14_Witness ==
    /\ SameInstants
    /\ Len(analysis.blocked) > 1
    /\ analysis.blocked # first.analysis.blocked
    /\ assembled.r.risk_counts["BLOCKED"] > 1

\* C15: once fetched, the snapshot that build_dependency_graph,
\* analyze_cascading_risks and the assembly work on keeps every field of every
\* document and its order through every step, and so does the collection.
C15_ReadOnly ==
    [][(pc # "start" => tasks' = tasks) /\ store' = store]_vars

\* The analysis and the assembly have run on a snapshot of several documents,
\* one of them reported BLOCKED, and the snapshot is what was fetched
C15_Witness ==
    /\ pc = "assembled"
    /\ Len(tasks) > 1
    /\ tasks = store
    /\ assembled.r.risk_counts["BLOCKED"] > 0
    /\ analysis.a.bottlenecks # <<>>

-----------------------------------------------------------------------------
(* Properties of concurrent callers *)

\* What the analysis and the assembly give for the snapshot ts when one caller
\* runs them alone
AloneAnalysis(ts) == analyze_cascading_risks(ts, now)

AloneAssembly(ts) ==
    Assembly(ts, CHOOSE order \in Orderings(AloneAnalysis(ts).blocked_tasks) : TRUE,
             AloneAnalysis(ts).bottlenecks, now)

\* The frame r of a call on ts that has returned holds what the call gives alone
ReturnedAsAlone(r, ts) ==
    r.phase \in {"returned", "assembled"} =>
        /\ r.graph = AloneAnalysis(ts).graph
        /\ r.risk_map = AloneAnalysis(ts).risk_map
        /\ r.status_map = AloneAnalysis(ts).status_map
        /\ r.blocked_tasks = AloneAnalysis(ts).blocked_tasks
        /\ r.bottlenecks = AloneAnalysis(ts).bottlenecks

\* C16: under every interleaving of the steps of two callers, the graph, the
\* maps, the blocked set, the bottleneck list, the histogram and the task
\* records of each caller are those it gets when it runs alone on its snapshot.
C16_ConcurrentAsAlone ==
    /\ ReturnedAsAlone(run, tasks)
    /\ ReturnedAsAlone(other.run, other.ts)
    /\ run.phase = "assembled" => assembled.r = AloneAssembly(tasks)
    /\ other.run.phase = "assembled" => other.assembled.r = AloneAssembly(other.ts)

\* The first caller has its result while the second, on a snapshot with the
\* same IDs, is in the middle of its blocked loop
C16_Witness ==
    /\ run.phase = "assembled"
    /\ assembled.r.risk_counts["BLOCKED"] > 0
    /\ other.run.phase = "checks"
    /\ Len(other.run.graph) = 2
    /\ Len(tasks) = 2

-----------------------------------------------------------------------------
(* Properties of format_time_remaining *)

\* int(s) of a string of digits
RECURSIVE NatOf(_)
NatOf(s) == IF s = <<>> THEN 0 ELSE 10 * NatOf(SubSeq(s, 1, Len(s) - 1)) + DigitVal(s[Len(s)])

\* s is the decimal numeral of n >= 1
NumeralOf(s, n) ==
    /\ s # <<>>
    /\ \A i \in 1..Len(s) : s[i] \in Digits
    /\ s[1] # "0"
    /\ NatOf(s) = n

\* text reads "OVERDUE by |n| day(s)" for n < 0, "Due TODAY" for n = 0 and
\* "n day(s)" for n >= 1
TimeTextOf(text, n) ==
    /\ n < 0 =>
        /\ Len(text) > 18
        /\ SubSeq(text, 1, 11) = <<"O", "V", "E", "R", "D", "U", "E", " ", "b", "y", " ">>
        /\ SubSeq(text, Len(text) - 6, Len(text)) = <<" ", "d", "a", "y", "(", "s", ")">>
        /\ NumeralOf(SubSeq(text, 12, Len(text) - 7), -n)
    /\ n = 0 => text = <<"D", "u", "e", " ", "T", "O", "D", "A", "Y">>
    /\ n > 0 =>
        /\ Len(text) > 7
        /\ SubSeq(text, Len(text) - 6, Len(text)) = <<" ", "d", "a", "y", "(", "s", ")">>
        /\ NumeralOf(SubSeq(text, 1, Len(text) - 7), n)

\* C19: format_time_remaining gives "OVERDUE by |N| day(s)" for N < 0,
\* "Due TODAY" for N = 0 and "N day(s)" for N >= 1, and the time text of every
\* task record has that form for the record's day count.
C19_TimeTextForms ==
    /\ fmt.called => TimeTextOf(fmt.text, fmt.days)
    /\ pc = "assembled" =>
        \A i \in 1..Len(assembled.r.analyzed_tasks) :
            TimeTextOf(assembled.r.analyzed_tasks[i].time_text,
                       assembled.r.analyzed_tasks[i].days_remaining)

\* A three-digit overdue count was formatted, and so were the records of an
\* overdue task and of a task not yet due
C19_Witness ==
    /\ fmt.called /\ fmt.days < -99 /\ Len(fmt.text) = 21
    /\ pc = "assembled"
    /\ \E i, j \in 1..Len(assembled.r.analyzed_tasks) :
            /\ assembled.r.analyzed_tasks[i].days_remaining < 0
            /\ assembled.r.analyzed_tasks[j].days_remaining > 0

-----------------------------------------------------------------------------
(* Properties of the request handling *)

\* word occurs in text
Mentions(text, word) ==
    \E i \in 1..(Len(text) - Len(word) + 1) : SubSeq(text, i, i + Len(word) - 1) = word

\* The request reached the try block and the analysis was assembled
Handled == pc = "done" /\ Accepted(req) /\ source # "failing"

\* The figures, sections and tiers the analysis of the snapshot gave, which
\* are there before line 310 asks for enrichment
CoreFigures ==
    [total |-> Len(tasks),
     at_risk |-> assembled.r.risk_counts["CRITICAL"] + assembled.r.risk_counts["HIGH"]
                 + assembled.r.risk_counts["BLOCKED"],
     bottlenecks |-> Len(analysis.a.bottlenecks),
     blocked |-> Len(analysis.blocked),
     sections |-> [h \in {"CRITICAL", "BLOCKED", "HIGH"} |->
                    Listed(assembled.r.analyzed_tasks, h)]]

FiguresOf(r) ==
    [total |-> r.total, at_risk |-> r.at_risk, bottlenecks |-> r.bottlenecks,
     blocked |-> r.blocked, sections |-> r.sections]

\* C17: whatever the enrichment client does, a handled request is answered with
\* status success and the task count, at-risk count, bottleneck count, blocked
\* count and sections of the analysis alone; with no client, a client that
\* raises or a reply that is no JSON text, the answer holds no insights.
C17_EnrichmentAdditive ==
    Handled =>
        /\ response.status = "success"
        /\ FiguresOf(response) = CoreFigures
        /\ client \in {"unconfigured", "raises", "not_json"} =>
            /\ ~response.ai_included
            /\ ~response.ai_summary
            /\ response.recommendations # "ai"

\* C18: a request whose store is unavailable or whose fetch raises is answered
\* with an error status, and an answer of success with zero tasks means that
\* the store was read and held no task.
C18_SourceFailureIsError ==
    (pc = "done" /\ Accepted(req)) =>
        /\ source # "connected" => response.status = "error"
        /\ (response.status = "success" /\ response.total = 0) =>
            /\ source = "connected"
            /\ calls.find = 1
            /\ store = <<>>

\* C20: a request with a non-empty body whose intent is not "deadline.monitor",
\* or that has no intent, is answered with HTTP 400, status error, error type
\* invalid_intent, its own request_id and a message that names
\* deadline.monitor; nothing is fetched, analyzed or enriched for it.
C20_InvalidIntentRejected ==
    (pc = "done" /\ BodyTruthy(req) /\ ~Accepted(req)) =>
        /\ response.http = 400
        /\ response.status = "error"
        /\ response.error_type = "invalid_intent"
        /\ response.request_id = Get(req, "request_id", None)
        /\ Mentions(response.message, MonitorIntent)
        /\ calls = NoCalls
        /\ tasks = <<>>
        /\ analysis.at = 0
        /\ assembled.at = 0

\* The body is missing (request.json gives None) or is the object {}
EmptyBody(r) ==
    \/ r.body = "null"
    \/ r.body = "object" /\ r.intent.t = "missing" /\ r.request_id.t = "missing" /\ ~r.extra

\* C21: a request whose body is missing or is an empty JSON object is answered
\* with HTTP 400, status error and error type invalid_request; it is never
\* reported as invalid_intent and nothing is fetched for it.
C21_EmptyBodyRejected ==
    EmptyBody(req) =>
        /\ pc \in {"start", "done"}
        /\ calls = NoCalls
        /\ tasks = <<>>
        /\ pc = "done" =>
            /\ response.http = 400
            /\ response.status = "error"
            /\ response.error_type = "invalid_request"

\* The object {} was turned away while the collection held tasks
C21_Witness ==
    /\ pc = "done"
    /\ req.body = "object" /\ EmptyBody(req)
    /\ store # <<>>
    /\ response.error_type = "invalid_request"

\* The keys every response is to carry
EnvelopeFields == {"request_id", "agent_name", "status", "output", "error"}

\* The request was analyzed and reported without an exception
AnalyzedCleanly == Handled /\ ReportExc(AiInsights(client, tasks)) = ""

\* C22: every response carries request_id, agent_name, status, output and
\* error; the response to a deadline.monitor request analyzed without exception
\* is HTTP 200 with status success, the request's own request_id, the agent's
\* name, a null error and an output with result, confidence 1.0 and details.
C22_ResponseEnvelope ==
    pc = "done" =>
        /\ EnvelopeFields \subseteq response.fields
        /\ AnalyzedCleanly =>
            /\ response.http = 200
            /\ response.status = "success"
            /\ response.request_id = Get(req, "request_id", None)
            /\ response.agent_name = AgentName
            /\ response.error = "null"
            /\ {"result", "confidence", "details"} \subseteq response.output_fields
            /\ response.confidence = 100

\* text speaks of tasks at risk, in any of the usual spellings
SpeaksOfAtRisk(text) ==
    \E phrase \in {<<"a", "t", " ", "r", "i", "s", "k">>,
                   <<"A", "t", " ", "r", "i", "s", "k">>,
                   <<"A", "t", " ", "R", "i", "s", "k">>,
                   <<"A", "T", " ", "R", "I", "S", "K">>} : Mentions(text, phrase)

\* C24: the details of every successful response mention the number of tasks
\* analyzed and the at-risk count.
C24_DetailsFigures ==
    (pc = "done" /\ response.status = "success") =>
        /\ Mentions(response.details,
                    <<"A", "n", "a", "l", "y", "z", "e", "d", " ">> \o IntStr(response.total) \o <<" ", "t", "a", "s", "k", "s">>)
        /\ SpeaksOfAtRisk(response.details)
        /\ Mentions(response.details, IntStr(response.at_risk))

\* C23: a deadline.monitor request over an empty snapshot is answered with HTTP
\* 200 and status success; the report gives 0 for the total, for every count
\* of the histogram, for the bottlenecks and for the blocked tasks, and the
\* enrichment service is not called.
C23_EmptySnapshotSucceeds ==
    (Handled /\ tasks = <<>>) =>
        /\ response.http = 200
        /\ response.status = "success"
        /\ response.total = 0
        /\ \A tier \in Tiers : assembled.r.risk_counts[tier] = 0
        /\ response.at_risk = 0
        /\ response.bottlenecks = 0
        /\ response.blocked = 0
        /\ response.sections = [h \in {"CRITICAL", "BLOCKED", "HIGH"} |-> <<>>]
        /\ calls.llm = 0
        /\ ~response.ai_included

\* An empty collection was read while a client was configured
C23_Witness ==
    /\ Handled
    /\ source = "connected" /\ calls.find = 1
    /\ store = <<>>
    /\ client = "number"
    /\ response.status = "success"

\* calculate_risk_level raises on the document at place i of the collection
ClassificationRaises(i) ==
    calculate_risk_level(Get(store[i], "task_deadline", Str(<<>>)),
                         Get(store[i], "task_status", Str(<<>>)), now).exc # ""

\* The fetch, the cascade analysis or the assembly raised
SomethingRaised ==
    \/ source = "failing"
    \/ analysis.a.exc # ""
    \/ assembled.r.exc # ""
    \/ source = "connected" /\ \E i \in 1..Len(store) : ClassificationRaises(i)

\* C28: when the fetch or a step of the analysis of a deadline.monitor request
\* raises, the answer is HTTP 500 with status error, error type
\* processing_error and the request's own request_id, and it holds no report;
\* one task on which the classification raises fails the whole request.
C28_RaiseFailsWholeRequest ==
    (pc = "done" /\ Accepted(req) /\ SomethingRaised) =>
        /\ response.http = 500
        /\ response.status = "error"
        /\ response.error_type = "processing_error"
        /\ response.request_id = Get(req, "request_id", None)
        /\ "output" \notin response.fields
        /\ response.output_fields = {}
        /\ response.details = <<>>
        /\ response.total = 0
        /\ response.sections = [h \in {"CRITICAL", "BLOCKED", "HIGH"} |-> <<>>]

\* The second of two tasks has a null status, the first is overdue, and the
\* request was answered with an error that names no task
C28_Witness ==
    /\ pc = "done"
    /\ source = "connected"
    /\ Len(store) = 2
    /\ ~ClassificationRaises(1) /\ ClassificationRaises(2)
    /\ req.request_id = Str(<<"r", "1">>)
    /\ response.error_type = "processing_error"

-----------------------------------------------------------------------------
(* Properties of the two classification passes of a request *)

\* The tier the risk map recorded for task i during the graph construction
RecordedTier(i) == DictGet(analysis.a.risk_map, IdOf(i))

\* The tier the assembly computed for task i before the override
AssembledTier(i) == IntrinsicTier(i, assembled.at)

\* C29: the tier the risk map records for a task during the graph construction
\* equals the tier the assembly computes for it, also when the clock advances
\* between the two steps; and a task is reported BLOCKED only if a task it
\* declares as predecessor has the assembly's tier CRITICAL or HIGH.
C29_OneInstantPerRun ==
    pc = "assembled" =>
        \A i \in TaskIndices :
            /\ RecordedTier(i) = AssembledTier(i)
            /\ assembled.r.analyzed_tasks[i].risk = "BLOCKED" =>
                \E j \in TaskIndices :
                    /\ Declares(i, IdOf(j))
                    /\ AssembledTier(j) \in {"CRITICAL", "HIGH"}

\* The tasks that are in the blocked list
BlockedIndices == {i \in TaskIndices : InSeq(IdOf(i), analysis.blocked)}

\* C30: the number of tasks reported BLOCKED (the histogram count and the
\* BLOCKED section of the report) is at most the size of the blocked set (the
\* report's blocked figure), and the two are equal exactly when no task of the
\* blocked set has the tier CRITICAL or COMPLETED of its own.
C30_BlockedCountAtMostBlockedSet ==
    (pc = "done" /\ response.status = "success") =>
        /\ Len(response.sections["BLOCKED"]) = assembled.r.risk_counts["BLOCKED"]
        /\ response.blocked = Cardinality(analysis.a.blocked_tasks)
        /\ assembled.r.risk_counts["BLOCKED"] <= response.blocked
        /\ assembled.r.risk_counts["BLOCKED"] = response.blocked
            <=> \A i \in BlockedIndices :
                    AssembledTier(i) \notin {"CRITICAL", "COMPLETED"}

\* Of two blocked tasks one is overdue itself, so one task is reported BLOCKED
C30_Witness ==
    /\ pc = "done" /\ response.status = "success"
    /\ response.blocked = 2
    /\ assembled.r.risk_counts["BLOCKED"] = 1
    /\ \E i \in BlockedIndices : AssembledTier(i) = "CRITICAL"

====
